---- MODULE Spec2Model ----
(***************************************************************************)
(* A model of the EasyDCP phenotyping pipeline (phenotypy/base.py):        *)
(* Classifier construction, Plot construction (classification and          *)
(* denoising), automatic and polygon segmentation, and trait extraction.   *)
(*                                                                         *)
(* A point cloud is a set of point ids; Pt gives every id its position     *)
(* and colour.  A raised Python exception is a result record with          *)
(* status "raise".  Numeric library calls whose parameters the model does  *)
(* not fix (outlier removal, DBSCAN, k-means initialisation, sort ties)    *)
(* are nondeterministic over the outcomes the library can produce.         *)
(***************************************************************************)
EXTENDS Integers, Sequences, FiniteSets, TLC

\* ------------------------------------------------------------------ bounds
\* the largest plot cloud that is not a scene of whole plants (number of
\* points)
MaxPts == 4
\* the largest number of training sources / labels given to Classifier
MaxTrain == 2
\* the largest number of named polygons in a shape file
MaxPolys == 2
\* the most method calls made on one plot
MaxCalls == 2
\* the most entries in the folder of image sets given to creation.py
MaxFolders == 3

\* --------------------------------------------------------------- utilities
RECURSIVE SumOver(_, _)
SumOver(S, f) ==
    IF S = {} THEN 0
    ELSE LET e == CHOOSE e \in S : TRUE IN f[e] + SumOver(S \ {e}, f)

Range(s) == {s[i] : i \in DOMAIN s}

\* f of the value of x: x is evaluated once, whatever f does with it
With(x, f(_)) == CHOOSE y \in {f(v) : v \in {x}} : TRUE

\* the function f with every value computed
Eager(f) == f @@ << >>

Min(S) == CHOOSE m \in S : \A e \in S : m <= e
Max(S) == CHOOSE m \in S : \A e \in S : m >= e

Prefix(s, n) == SubSeq(s, 1, n)

\* the sequences over S of length at most n
SeqsUpTo(S, n) == UNION {[1..m -> S] : m \in 0..n}

\* a Python call's outcome
Return == "return"
Raise == "raise"

\* ------------------------------------------------------------ point clouds
\* label of the background class (base.py docstring, kind_list)
BACKGROUND == -1

\* colours of points and training samples: ground-like and plant-like
Colors == {"g", "p"}

\* The positions (in units of 0.2 m) and colours a plot's points are drawn
\* from: two ground points; plant A, three points with centroid x = 0;
\* plant B, three points with centroid x = 5 (1 m from A) and a larger
\* extent; a stray plant-coloured point.
Pt ==
    << [x |-> 0, y |-> 1, z |-> 0, rgb |-> "g"],
       [x |-> 0, y |-> 0, z |-> 1, rgb |-> "g"],
       [x |-> -1, y |-> 0, z |-> 5, rgb |-> "p"],
       [x |-> 1, y |-> 0, z |-> 6, rgb |-> "p"],
       [x |-> 0, y |-> 1, z |-> 5, rgb |-> "p"],
       [x |-> 4, y |-> 0, z |-> 5, rgb |-> "p"],
       [x |-> 6, y |-> 0, z |-> 6, rgb |-> "p"],
       [x |-> 5, y |-> 2, z |-> 5, rgb |-> "p"],
       [x |-> 12, y |-> 3, z |-> 5, rgb |-> "p"] >>

PointIds == DOMAIN Pt

Ground == {1, 2}
PlantA == {3, 4, 5}
PlantB == {6, 7, 8}
Stray == {9}

\* the scenes of whole plants: ground and plant A; ground and both plants;
\* ground, both plants and the stray point
Scenes ==
    { Ground \cup PlantA, Ground \cup PlantA \cup PlantB,
      Ground \cup PlantA \cup PlantB \cup Stray }

\* the clouds a ply file can hold: any few points, and the scenes
Clouds == {c \in SUBSET PointIds : Cardinality(c) <= MaxPts} \cup Scenes

Xs(c) == {Pt[p].x : p \in c}
Ys(c) == {Pt[p].y : p \in c}
Zs(c) == {Pt[p].z : p \in c}

\* squared distance between two points
Dist2(p, q) ==
    (Pt[p].x - Pt[q].x) * (Pt[p].x - Pt[q].x)
    + (Pt[p].y - Pt[q].y) * (Pt[p].y - Pt[q].y)
    + (Pt[p].z - Pt[q].z) * (Pt[p].z - Pt[q].z)

\* open3d's radius search around p in cloud c (p itself included)
SearchRadius(c, p, radius) ==
    {q \in c : Dist2(p, q) < radius * radius}

\* ------------------------------------------------------------- Classifier
\* the class labels a caller can pass: background, foreground 0, class 1
Kinds == {BACKGROUND, 0, 1}

\* A training source: an in-memory point cloud ("pcd"), a path holding
\* '.png' or '.ply', another string ("str"), or any other object ("other").
\* colors are the colour samples the source yields when it is read.
Source(t, cs) == [type |-> t, colors |-> cs]

PcdGround == Source("pcd", <<"g">>)
PngPlant == Source("png", <<"p">>)

TrainSources ==
    { PcdGround, PngPlant,
      Source("ply", <<"p", "g">>),
      Source("png", <<>>),
      Source("str", <<>>),
      Source("other", <<>>) }

Cores == {"dtc", "svm", "knn"}

\* build_training_array: one pass over zip(path_list, kind_list), stacking
\* the colours of each source and as many copies of its label
RECURSIVE build_training_array(_, _, _, _)
build_training_array(path_list, kind_list, train_data, train_kind) ==
    IF path_list = <<>> \/ kind_list = <<>>
    THEN [status |-> Return, exc |-> "",
          train_data |-> train_data, train_kind |-> train_kind]
    ELSE LET img_path == Head(path_list)
             kind == Head(kind_list)
         IN  IF img_path.type = "other"
             THEN [status |-> Raise, exc |-> "TypeError",
                   train_data |-> train_data, train_kind |-> train_kind]
             ELSE IF img_path.type = "str"
             \* img_np stays None: None.shape
             THEN [status |-> Raise, exc |-> "AttributeError",
                   train_data |-> train_data, train_kind |-> train_kind]
             ELSE build_training_array(
                      Tail(path_list), Tail(kind_list),
                      train_data \o img_path.colors,
                      train_kind \o [i \in 1..Len(img_path.colors) |-> kind])

\* how many samples of colour c carry label k
Votes(train_data, train_kind, c, k) ==
    Cardinality({i \in DOMAIN train_data :
                    train_data[i] = c /\ train_kind[i] = k})

\* DecisionTreeClassifier.fit: the fitted trees.  A colour seen in training
\* lands in a leaf of its own and gets the leaf's majority label (argmax
\* takes the lowest label on a tie); an unseen colour gets the label of
\* whichever leaf the split thresholds send it to.
FittedTrees(train_data, train_kind) ==
    { t \in [Colors -> Range(train_kind)] :
        \A c \in Range(train_data) :
            \A k \in Range(train_kind) :
                \/ Votes(train_data, train_kind, c, t[c])
                      > Votes(train_data, train_kind, c, k)
                \/ /\ Votes(train_data, train_kind, c, t[c])
                         = Votes(train_data, train_kind, c, k)
                   /\ t[c] <= k }

NoTree == [c \in Colors |-> BACKGROUND]

Model(t, f, tr) == [type |-> t, fitted |-> f, tree |-> tr]

\* Truncate keeping the trailing elements
TruncateTail(list, path_n, kind_n) ==
    SubSeq(list, Len(list) - (IF path_n < kind_n THEN path_n ELSE kind_n) + 1,
           Len(list))

\* the part of path_list / kind_list that __init__ keeps
Truncate(list, path_n, kind_n) ==
    Prefix(list, IF path_n < kind_n THEN path_n ELSE kind_n)

\* the label set the classifier holds
KindSetOf(path_list, kind_list) == Range(kind_list)

\* Classifier.__init__; tree is the tree DecisionTreeClassifier.fit returns
\* when it is called
Classifier__init__(path_list, kind_list, core, tree) ==
    LET path_n == Len(path_list)
        kind_n == Len(kind_list)
        pl == Truncate(path_list, path_n, kind_n)
        kl == Truncate(kind_list, path_n, kind_n)
        arr == build_training_array(pl, kl, <<>>, <<>>)
        kind_set == KindSetOf(path_list, kind_list)
        obj(st, e, m) ==
            [status |-> st, exc |-> e, path_list |-> pl, kind_list |-> kl,
             train_data |-> arr.train_data, train_kind |-> arr.train_kind,
             kind_set |-> kind_set, clf |-> m]
    IN  IF arr.status = Raise
        THEN obj(Raise, arr.exc, Model("none", FALSE, NoTree))
        ELSE IF Cardinality(kind_set) = 1
        THEN obj(Return, "", Model("OneClassSVM", FALSE, NoTree))
        ELSE IF core = "dtc"
        THEN IF arr.train_data = <<>>
             \* fit on an array of 0 samples
             THEN obj(Raise, "ValueError", Model("none", FALSE, NoTree))
             ELSE obj(Return, "", Model("DecisionTreeClassifier", TRUE, tree))
        ELSE IF core = "svm"
        THEN obj(Return, "", Model("SVC", FALSE, NoTree))
        \* any other core: self.clf is never assigned
        ELSE obj(Return, "", Model("none", FALSE, NoTree))

\* the trees fit can return for these arguments (NoTree when fit is not
\* reached)
TreesFor(path_list, kind_list, core) ==
    LET c == Classifier__init__(path_list, kind_list, core, NoTree)
    IN  IF c.status = Return /\ c.clf.type = "DecisionTreeClassifier"
        THEN FittedTrees(c.train_data, c.train_kind)
        ELSE {NoTree}

\* Classifier.predict on the colours of the points of cloud c
predict(cl, c) ==
    IF cl.clf.type = "none"
    THEN [status |-> Raise, exc |-> "AttributeError",
          labels |-> [p \in {} |-> 0]]
    ELSE IF ~cl.clf.fitted
    THEN [status |-> Raise, exc |-> "NotFittedError",
          labels |-> [p \in {} |-> 0]]
    ELSE IF c = {}
    THEN [status |-> Raise, exc |-> "ValueError",
          labels |-> [p \in {} |-> 0]]
    ELSE [status |-> Return, exc |-> "",
          labels |-> [p \in c |-> cl.clf.tree[Pt[p].rgb]]]

\* ------------------------------------------------------------------- state
VARIABLES
    pc,                  \* "start", "clf" (a Classifier exists), "plot" (a
                         \* Plot exists), "plant" (a Plant made on its own
                         \* exists), "stop" (a constructor raised); for
                         \* creation.py "batch" (in its main loop), "done"
                         \* (it ran to its end), "abort" (it ended on an
                         \* exception)
    clf_args,            \* the arguments Classifier was called with
    clf,                 \* the Classifier object
    write_ply,           \* Plot.write_ply
    pcd,                 \* Plot.pcd
    voxel,               \* Plot.voxel_size, Plot.voxel_density
    pcd_classified,      \* Plot.pcd_classified: class -> cloud
    pcd_cleaned,         \* Plot.pcd_cleaned: class -> cloud
    segmented,           \* Plot.segmented
    pcd_segmented,       \* Plot.pcd_segmented: class -> list of clouds
    pcd_segmented_name,  \* Plot.pcd_segmented_name: class -> list of names
    plant,               \* the Plant object made on its own
    batch,               \* the batch run of creation.py: its lists, its
                         \* loop index and what it has done so far
    calls,               \* the number of method calls made on the plot
    files,               \* the files written so far
    dirs,                \* the directories created so far
    ret                  \* the last call: its name, arguments and outcome

vars == << pc, clf_args, clf, write_ply, pcd, voxel, pcd_classified,
           pcd_cleaned, segmented, pcd_segmented, pcd_segmented_name,
           plant, batch, calls, files, dirs, ret >>

plot_vars == << write_ply, pcd, voxel, pcd_classified, pcd_cleaned,
                segmented, pcd_segmented, pcd_segmented_name >>

\* a dict with no key
EmptyDict == << >>

NoArgs == [path_list |-> <<>>, kind_list |-> <<>>, core |-> ""]

NoClassifier ==
    [status |-> "", exc |-> "", path_list |-> <<>>, kind_list |-> <<>>,
     train_data |-> <<>>, train_kind |-> <<>>, kind_set |-> {},
     clf |-> Model("none", FALSE, NoTree)]

\* no Plant: the fields of a Plant, none computed
NoPlant ==
    [status |-> "", exc |-> "", pcd |-> {}, ground_in |-> {},
     shared |-> {}, ground_pcd |-> {}, pla |-> 0,
     pctl_ht |-> [nan |-> TRUE, num |-> 0, den |-> 1]]

\* creation.py before its folder lists are filled
NoBatch ==
    [folder_list |-> <<>>, folder_count |-> 0, filename_list |-> <<>>,
     j |-> 0, done |-> <<>>]

\* the record of a call: info holds what the call computed on the way
Call(op, args, status, exc, info, val) ==
    [op |-> op, args |-> args, status |-> status, exc |-> exc,
     info |-> info, val |-> val]

Init ==
    /\ pc = "start"
    /\ clf_args = NoArgs
    /\ clf = NoClassifier
    /\ write_ply = FALSE
    /\ pcd = {}
    /\ voxel = [size |-> 0, density2 |-> 0]
    /\ pcd_classified = EmptyDict
    /\ pcd_cleaned = EmptyDict
    /\ segmented = FALSE
    /\ pcd_segmented = EmptyDict
    /\ pcd_segmented_name = EmptyDict
    /\ plant = NoPlant
    /\ batch = NoBatch
    /\ calls = 0
    /\ files = {}
    /\ dirs = {}
    /\ ret = Call("", <<>>, "", "", <<>>, <<>>)

\* ------------------------------------------------- Classifier construction
\* the argument lists of one training call
TrainArgs ==
    [path_list : SeqsUpTo(TrainSources, MaxTrain),
     kind_list : SeqsUpTo(Kinds, MaxTrain),
     core : Cores]

\* the classifiers an analysis session is run with: background/foreground
\* (decision tree and margin classifier), one class, two foreground classes
\* without background, and a label list longer than the source list
SessionArgs ==
    { [path_list |-> <<PcdGround, PngPlant>>,
       kind_list |-> <<BACKGROUND, 0>>, core |-> "dtc"],
      [path_list |-> <<PcdGround, PngPlant>>,
       kind_list |-> <<BACKGROUND, 0>>, core |-> "svm"],
      [path_list |-> <<PngPlant>>,
       kind_list |-> <<0>>, core |-> "dtc"],
      [path_list |-> <<PngPlant, PcdGround>>,
       kind_list |-> <<0, 1>>, core |-> "dtc"],
      [path_list |-> <<PcdGround, PngPlant>>,
       kind_list |-> <<BACKGROUND, 0, 1>>, core |-> "dtc"] }

\* cla = Classifier(path_list, kind_list, core)
NewClassifier(ArgSet) ==
    /\ pc = "start"
    /\ \E a \in ArgSet :
        \E tree \in TreesFor(a.path_list, a.kind_list, a.core) :
            LET c == Classifier__init__(a.path_list, a.kind_list, a.core, tree)
            IN  /\ clf_args' = a
                /\ clf' = c
                /\ pc' = IF c.status = Return THEN "clf" ELSE "stop"
                /\ ret' = Call("Classifier", <<>>, c.status, c.exc, <<>>, <<>>)
    /\ UNCHANGED << plot_vars, plant, calls, files, dirs, batch >>

\* the colour arrays predict is tried on: none, ground, plant, both
SampleClouds == SUBSET {1, 3}

\* cla.predict(colours) on a sample cloud, outside any plot
Predict ==
    /\ pc = "clf"
    /\ \E c \in SampleClouds :
        LET r == predict(clf, c)
        IN  ret' = Call("predict", c, r.status, r.exc, <<>>, r.labels)
    /\ UNCHANGED << pc, clf_args, clf, plot_vars, plant, calls, files,
                    dirs, batch >>

NextClf == NewClassifier(TrainArgs) \/ Predict

SpecClf == Init /\ [][NextClf]_vars

\* ------------------------------------------------------ Plot construction
\* the elements of a set of integers in ascending order
Ascending(S) ==
    [i \in 1 .. Cardinality(S) |->
        CHOOSE e \in S : Cardinality({o \in S : o < e}) = i - 1] \o << >>

\* the order in which Python iterates a dict keyed by the labels of
\* kind_set (CPython's order for a set of small ints: the non-negative
\* labels ascending, then -1, whose hash is -2)
KeyOrder(S) == Ascending(S \ {BACKGROUND}) \o Ascending(S \cap {BACKGROUND})

\* what can be given as ply_path
PlyPaths == {"file", "dir", "empty_dir", "missing"}

\* read_ply(ply_path, unit=unit) and read_plys(ply_list, unit=unit), lines
\* 191 and 203, for a path that holds cloud.  The readers of io/pcd.py take
\* no unit keyword, and the call raises TypeError with them; accepts_unit
\* says whether the reader bound to the name takes the keyword.
read_ply(cloud, accepts_unit) ==
    IF accepts_unit
    THEN [status |-> Return, exc |-> "", pcd |-> cloud]
    ELSE [status |-> Raise, exc |-> "TypeError", pcd |-> {}]

\* output_path, and os.path.join(output_path, ply_name)
OutputPath == "."
PlotFolder == "./plot"

OutFolder(wp) == IF wp THEN PlotFolder ELSE OutputPath

\* a file: its folder, its class, and what follows the class in its name
File(folder, k, tag, ext) ==
    [folder |-> folder, class |-> k, tag |-> tag, ext |-> ext]

\* Plot.__init__, lines 211-217: the directory make_dir creates
make_out_folder(wp) == IF wp THEN {OutFolder(wp)} ELSE {}

\* Plot.classifier_apply: pcd_classified, and the files written
classifier_apply(cl, cloud, wp) ==
    LET pred_result == predict(cl, cloud)
    IN  IF pred_result.status = Raise
        THEN [status |-> Raise, exc |-> pred_result.exc,
              pcd_classified |-> EmptyDict, files |-> {}]
        ELSE [status |-> Return, exc |-> "",
              pcd_classified |->
                  [k \in cl.kind_set |->
                      {p \in cloud : pred_result.labels[p] = k}],
              files |->
                  IF wp
                  THEN {File(OutFolder(wp), k, "", "ply") : k \in cl.kind_set}
                  ELSE {}]

\* pcd2voxel: the voxel size and twice the point density it can return
VoxelStats == { [size |-> 3, density2 |-> 1], [size |-> 2, density2 |-> 2] }

\* Python's round() of d2 / 2: halves go to the even neighbour
RoundHalf(d2) ==
    LET q == d2 \div 2
    IN  IF d2 % 2 = 0 THEN q ELSE IF q % 2 = 0 THEN q ELSE q + 1

\* open3d remove_statistical_outlier: the clouds it can return, each a
\* selection of the input's points (which ones depends on the mean and
\* deviation of the neighbour distances)
remove_statistical_outlier(cloud, nb_neighbors, std_ratio100) == SUBSET cloud

\* open3d remove_radius_outlier: the points with more than nb_points
\* points within radius
remove_radius_outlier(cloud, nb_points, radius) ==
    {p \in cloud : Cardinality(SearchRadius(cloud, p, radius)) > nb_points}

\* one filter pass, as remove_noise runs it
Pass(filter, k, input, nb, param, output) ==
    [filter |-> filter, class |-> k, input |-> input, nb |-> nb,
     param |-> param, output |-> output]

\* noise_passes with the single radius pass for the background as well
noise_passes_single(k, classified, vx) ==
    { << Pass("radius", k, classified, RoundHalf(vx.density2), vx.size,
              remove_radius_outlier(classified, RoundHalf(vx.density2),
                                    vx.size)) >> }

\* Plot.remove_noise for class k: the sequences of passes it can run
noise_passes(k, classified, vx) ==
    IF k = BACKGROUND
    THEN { << Pass("statistical", k, classified,
                   RoundHalf(vx.density2), 1, mid),
              Pass("radius", k, mid, RoundHalf(2 * vx.density2),
                   vx.size, out) >> :
             <<mid, out>> \in
                 { mo \in (SUBSET classified) \X (SUBSET classified) :
                     /\ mo[1] \in remove_statistical_outlier(
                                     classified, RoundHalf(vx.density2), 1)
                     /\ mo[2] = remove_radius_outlier(
                                   mo[1], RoundHalf(2 * vx.density2),
                                   vx.size) } }
    ELSE { << Pass("radius", k, classified, RoundHalf(vx.density2),
                   vx.size,
                   remove_radius_outlier(classified, RoundHalf(vx.density2),
                                         vx.size)) >> }

\* Plot.remove_noise: every way of cleaning the classes of keys in turn
RECURSIVE remove_noise(_, _, _)
remove_noise(keys, classified, vx) ==
    IF keys = <<>> THEN { <<>> }
    ELSE { ps \o rest :
             <<ps, rest>> \in
                 noise_passes(Head(keys), classified[Head(keys)], vx)
                     \X remove_noise(Tail(keys), classified, vx) }

\* CleanedOf taking the output of the last pass run, whatever its class
CleanedOfLast(passes, k) == passes[Len(passes)].output

\* the cleaned cloud of class k after the passes
CleanedOf(passes, k) ==
    LET last == Max({i \in DOMAIN passes : passes[i].class = k})
    IN  passes[last].output

noise_files(keys, wp) ==
    IF wp
    THEN {File(OutFolder(wp), k, "rm_noise", "ply") : k \in keys}
    ELSE {}

\* the arguments of Plot, with the cloud the ply path holds
PlotArgs(path, cloud, wp) ==
    [path |-> path, cloud |-> cloud, write_ply |-> wp]

\* plot = Plot(ply_path, cla, write_ply=wp)
NewPlot(CloudSet, WriteSet) ==
    /\ pc = "clf"
    /\ \E path \in PlyPaths, cloud \in CloudSet, wp \in WriteSet,
          vx \in VoxelStats, accepts_unit \in BOOLEAN :
        LET made == make_out_folder(wp)
            read == read_ply(cloud, accepts_unit)
            ca == classifier_apply(clf, cloud, wp)
            fail(exc, ds, fs) ==
                /\ pc' = "stop"
                /\ ret' = Call("Plot", PlotArgs(path, cloud, wp), Raise, exc,
                               <<>>, <<>>)
                /\ dirs' = dirs \cup ds
                /\ files' = files \cup fs
                /\ UNCHANGED plot_vars
        IN  IF path = "empty_dir" THEN fail("EOFError", {}, {})
            ELSE IF path = "missing" THEN fail("TypeError", {}, {})
            ELSE IF read.status = Raise THEN fail(read.exc, {}, {})
            ELSE IF ca.status = Raise THEN fail(ca.exc, made, {})
            ELSE \E passes \in remove_noise(KeyOrder(clf.kind_set),
                                            ca.pcd_classified, vx) :
                    /\ pc' = "plot"
                    /\ write_ply' = wp
                    /\ pcd' = cloud
                    /\ voxel' = vx
                    /\ pcd_classified' = ca.pcd_classified
                    /\ pcd_cleaned' =
                           [k \in clf.kind_set |-> CleanedOf(passes, k)]
                    /\ segmented' = FALSE
                    /\ pcd_segmented' = EmptyDict
                    /\ pcd_segmented_name' = EmptyDict
                    /\ dirs' = dirs \cup made
                    /\ files' = files \cup ca.files
                                   \cup noise_files(clf.kind_set, wp)
                    /\ ret' = Call("Plot", PlotArgs(path, cloud, wp), Return,
                                   "", passes, <<>>)
    /\ UNCHANGED << clf_args, clf, plant, calls, batch >>

\* ------------------------------------------------------ auto_segmentation
\* open3d cluster_dbscan(eps, min_points).  The points are scanned in index
\* order; a point with fewer than min_points neighbours is marked noise
\* (-1); any other unlabelled point starts the next cluster, which takes
\* its neighbours, and the neighbours of every member that has min_points
\* neighbours itself; a point of an earlier cluster is left where it is.
IsCore(c, p, eps, min_points) ==
    Cardinality(SearchRadius(c, p, eps)) >= min_points

RECURSIVE Expand(_, _, _, _, _)
Expand(c, members, taken, eps, min_points) ==
    With(members \cup
             (UNION { SearchRadius(c, q, eps) :
                        q \in {m \in members :
                                 IsCore(c, m, eps, min_points)} } \ taken),
         LAMBDA more :
             IF more = members THEN members
             ELSE Expand(c, more, taken, eps, min_points))

RECURSIVE Scan(_, _, _, _, _, _)
Scan(c, todo, labels, cluster_label, eps, min_points) ==
    IF todo = <<>> THEN labels
    ELSE With(Head(todo), LAMBDA idx :
         IF labels[idx] # -2
         THEN Scan(c, Tail(todo), labels, cluster_label, eps, min_points)
         ELSE IF ~IsCore(c, idx, eps, min_points)
         THEN With([labels EXCEPT ![idx] = -1], LAMBDA marked :
                  Scan(c, Tail(todo), marked, cluster_label, eps,
                       min_points))
         ELSE With(Expand(c, {idx}, {q \in c : labels[q] >= 0}, eps,
                          min_points),
                   LAMBDA members :
                  With(Eager([q \in c |-> IF q \in members
                                          THEN cluster_label
                                          ELSE labels[q]]),
                       LAMBDA marked :
                           Scan(c, Tail(todo), marked, cluster_label + 1,
                                eps, min_points))))

cluster_dbscan(c, eps, min_points) ==
    With(Ascending(c), LAMBDA todo :
        With(Eager([q \in c |-> -2]), LAMBDA labels :
            Scan(c, todo, labels, 0, eps, min_points)))

\* np.unique: the distinct labels, ascending
unique(vect) == Ascending({vect[p] : p \in DOMAIN vect})

\* 125 * n ** 0.5, truncated
SqrtTab ==
    [n \in 0 .. Cardinality(PointIds) |->
        CHOOSE r \in 0 .. 125 * Cardinality(PointIds) :
            r * r <= 15625 * n /\ 15625 * n < (r + 1) * (r + 1)]

Extent(S) == IF S = {} THEN 0 ELSE Max(S) - Min(S)

\* pcd_tools.calculate_xyz_volume: the volume a cloud encloses
calculate_xyz_volume(c) == Extent(Xs(c)) * Extent(Ys(c)) * Extent(Zs(c))

\* The descriptor of a cluster, (len(points) ** 0.5, volume in m3), both
\* in 1/125: a cube of one unit of 0.2 m is 1/125 m3.
Char(c) == << SqrtTab[Cardinality(c)], calculate_xyz_volume(c) >>

\* squared distance from descriptor a to the mean of the descriptors of the
\* indices in G, times Cardinality(G) squared
Dist2N(chars, a, G) ==
    LET n == Cardinality(G)
        s1 == SumOver(G, [i \in G |-> chars[i][1]])
        s2 == SumOver(G, [i \in G |-> chars[i][2]])
    IN  (n * a[1] - s1) * (n * a[1] - s1) + (n * a[2] - s2) * (n * a[2] - s2)

\* KMeans(n_clusters=2).fit(chars).labels_: every descriptor carries the
\* label of its nearest group mean (argmin takes label 0 when both are as
\* near); with one distinct descriptor both centres coincide and every
\* label is 0.  Which group is called 0 depends on the random start.
KMeans2(chars) ==
    LET I == DOMAIN chars
        G(l, v) == {i \in I : l[i] = v}
    IN  IF Cardinality(Range(chars)) = 1
        THEN { [i \in I |-> 0] }
        ELSE { l \in [I -> {0, 1}] :
                 /\ G(l, 0) # {} /\ G(l, 1) # {}
                 /\ \A i \in I :
                      LET n0 == Cardinality(G(l, 0))
                          n1 == Cardinality(G(l, 1))
                          d0 == Dist2N(chars, chars[i], G(l, 0)) * n1 * n1
                          d1 == Dist2N(chars, chars[i], G(l, 1)) * n0 * n0
                      IN  IF l[i] = 0 THEN d0 <= d1 ELSE d1 < d0 }

\* class0.mean(axis=0)[0] > class1.mean(axis=0)[0]; the mean of no row is
\* nan, and every comparison with nan is False
MeanGreater(chars, G0, G1) ==
    /\ G0 # {} /\ G1 # {}
    /\ SumOver(G0, [i \in G0 |-> chars[i][1]]) * Cardinality(G1)
          > SumOver(G1, [i \in G1 |-> chars[i][1]]) * Cardinality(G0)

\* PlantLabel with label 0 taken when neither mean is greater
PlantLabelFirstOnTie(chars, labels) ==
    IF MeanGreater(chars, {i \in DOMAIN chars : labels[i] = 1},
                   {i \in DOMAIN chars : labels[i] = 0})
    THEN 1 ELSE 0

\* lines 324-327: the 2-means label whose clusters are kept as plants
PlantLabel(chars, labels) ==
    IF MeanGreater(chars, {i \in DOMAIN chars : labels[i] = 0},
                   {i \in DOMAIN chars : labels[i] = 1})
    THEN 0 ELSE 1

\* get_center()[0] and [1] of two clouds compared: sums cross-multiplied
Coord(p, by) == IF by = "x" THEN Pt[p].x ELSE Pt[p].y
CenterSum(c, by) == SumOver(c, [p \in c |-> Coord(p, by)])
CenterLeq(a, b, by) ==
    CenterSum(a, by) * Cardinality(b) <= CenterSum(b, by) * Cardinality(a)

\* the columns of temp_df
Columns == {"seg_id", "x", "y"}

\* InOrder with the ascending flag ignored
InOrderAscending(a, b, by, ascending) == CenterLeq(a, b, by)

\* is the pair (a, b) of clusters in the order sort_values asks for
InOrder(a, b, by, ascending) ==
    IF ascending THEN CenterLeq(a, b, by) ELSE CenterLeq(b, a, by)

\* temp_df.sort_values(by, ascending): the orders it can leave the rows in
\* (rows of equal key in any order)
sort_values(plant_id, seg_list, by, ascending) ==
    LET n == Len(plant_id)
    IN  { ord \in [1 .. n -> Range(plant_id)] :
            /\ \A i, j \in 1 .. n : i # j => ord[i] # ord[j]
            /\ \A i \in 1 .. n - 1 :
                  InOrder(seg_list[ord[i]], seg_list[ord[i + 1]],
                          by, ascending) }

\* 'class[k]-plant{i}', 'class[k]-<polygon name>'
PlantTags == << "plant0", "plant1", "plant2", "plant3", "plant4", "plant5" >>
PlantName(k, i) == [class |-> k, tag |-> PlantTags[i + 1]]
ShpName(k, key) == [class |-> k, tag |-> key]

\* the folders img_folder is given as
ImgFolders == {".", "plot_out"}

\* plotting.figure.draw_plot_seg_results: the image it saves at savepath
draw_plot_seg_results(folder, k) == {File(folder, k, "", "png")}

\* plant_files without the write_ply test
plant_files_ungated(wp, k, n) ==
    {File(OutFolder(wp), k, PlantTags[i + 1], "ply") : i \in 0 .. n - 1}

\* lines 343-346 of the loop: the per-instance clouds written
plant_files(wp, k, n) ==
    IF wp
    THEN {File(OutFolder(wp), k, PlantTags[i + 1], "ply") : i \in 0 .. n - 1}
    ELSE {}

\* what one turn of the class loop leaves behind: the instances and their
\* names, the files written, and what was computed on the way
ClassInfo(vect, seg_list, chars, labels, ord) ==
    [vect |-> vect, seg_list |-> seg_list, chars |-> chars,
     labels |-> labels, order |-> ord]

ClassResult(status, exc, seg, names, fs, info) ==
    [status |-> status, exc |-> exc, seg |-> seg, names |-> names,
     files |-> fs, info |-> info]

\* lines 314-359 for the clusters seg_list of class k with descriptors
\* chars: the 2-means split, the choice of the plant group, the sort and
\* the output.  KMeans.fit raises on fewer samples than clusters.
auto_plants(k, wp, args, vect, seg_list, chars) ==
    IF Len(seg_list) < 2
    THEN { ClassResult(Raise, "ValueError", <<>>, <<>>, {},
                       ClassInfo(vect, seg_list, chars, <<>>, <<>>)) }
    ELSE IF args.name_by \notin Columns
    THEN { ClassResult(Raise, "KeyError", <<>>, <<>>, {},
                       ClassInfo(vect, seg_list, chars, <<>>, <<>>)) }
    ELSE UNION { UNION {
           { ClassResult(Return, "",
                 [i \in DOMAIN ord |-> seg_list[ord[i]]] \o << >>,
                 [i \in DOMAIN ord |-> PlantName(k, i - 1)] \o << >>,
                 plant_files(wp, k, Len(ord)) \cup
                     draw_plot_seg_results(
                         IF args.img_folder = "." THEN OutFolder(wp)
                         ELSE args.img_folder, k),
                 ClassInfo(vect, seg_list, chars, labels, ord)) :
             ord \in sort_values(plant_id, seg_list, args.name_by,
                                 args.ascending) } :
           plant_id \in { SelectSeq([i \in DOMAIN seg_list |-> i] \o << >>,
                              LAMBDA i :
                                  labels[i] = PlantLabel(chars, labels)) } } :
           labels \in KMeans2(chars) }

\* lines 288-312 for class k with cleaned cloud c: DBSCAN, the clusters by
\* label, their descriptors
auto_class(k, c, wp, vx, args) ==
    UNION { UNION { UNION {
        auto_plants(k, wp, args, vect, seg_list, chars) :
          chars \in { [i \in DOMAIN seg_list |-> Char(seg_list[i])]
                          \o << >> } } :
          seg_list \in { [i \in DOMAIN unique(vect) |->
                            {p \in c : vect[p] = unique(vect)[i]}]
                             \o << >> } } :
          vect \in { cluster_dbscan(c, vx.size * args.eps_times,
                                    RoundHalf(vx.density2)) } }

\* the result of a segmentation call: the two dicts it builds, the files it
\* has written, and what it computed per class
SegResult(status, exc, seg_out, seg_out_name, fs, info) ==
    [status |-> status, exc |-> exc, seg_out |-> seg_out,
     seg_out_name |-> seg_out_name, files |-> fs, info |-> info]

\* the class loop of auto_segmentation over keys, from the result so far
RECURSIVE auto_loop(_, _, _, _, _, _)
auto_loop(keys, cleaned, wp, vx, args, acc) ==
    IF keys = <<>> THEN {acc}
    ELSE IF Head(keys) = BACKGROUND
    THEN auto_loop(Tail(keys), cleaned, wp, vx, args, acc)
    ELSE UNION {
        IF o.status = Raise
        THEN { SegResult(Raise, o.exc, acc.seg_out, acc.seg_out_name,
                         acc.files, acc.info @@ (Head(keys) :> o.info)) }
        ELSE UNION { auto_loop(Tail(keys), cleaned, wp, vx, args, next) :
                     next \in { SegResult(Return, "",
                                    acc.seg_out @@ (Head(keys) :> o.seg),
                                    acc.seg_out_name
                                        @@ (Head(keys) :> o.names),
                                    acc.files \cup o.files,
                                    acc.info @@ (Head(keys) :> o.info)) } } :
        o \in auto_class(Head(keys), cleaned[Head(keys)], wp, vx, args) }

\* Plot.auto_segmentation
auto_segmentation(classified_keys, cleaned, wp, vx, args) ==
    auto_loop(classified_keys, cleaned, wp, vx, args,
              SegResult(Return, "", EmptyDict, EmptyDict, {}, EmptyDict))

\* Commit with the dicts bound to the plot as the call built them, also
\* when it raised
CommitPartial(r, old) ==
    [segmented |-> old.segmented \/ r.status = Return,
     pcd_segmented |-> r.seg_out,
     pcd_segmented_name |-> r.seg_out_name]

\* Commit with the flag set whether the call returned or raised
CommitAlways(r, old) ==
    [segmented |-> TRUE,
     pcd_segmented |-> IF r.status = Return THEN r.seg_out
                       ELSE old.pcd_segmented,
     pcd_segmented_name |-> IF r.status = Return THEN r.seg_out_name
                            ELSE old.pcd_segmented_name]

\* lines 361-363 and 405-407: the plot's fields after a segmentation call
\* that ended as r
Commit(r, old) ==
    IF r.status = Return
    THEN [segmented |-> TRUE, pcd_segmented |-> r.seg_out,
          pcd_segmented_name |-> r.seg_out_name]
    ELSE old

\* ------------------------------------------------------- shp_segmentation
\* A polygon is its list of vertices <<x, y>>, in tenths of a unit.
Rect(x0, x1, y0, y1) ==
    << <<10 * x0, 10 * y0>>, <<10 * x0, 10 * y1>>,
       <<10 * x1, 10 * y1>>, <<10 * x1, 10 * y0>> >>

\* open3d SelectionPolygonVolume.crop_point_cloud with orthogonal axis Z:
\* a point outside [axis_min, axis_max] is dropped; for the others the
\* polygon's edges that cross the point's y are intersected with it, and the
\* point is kept when an odd number of the crossings lie left of its x.
\* px, py are the point's coordinates in tenths.
CrossesLeft(vi, vj, px, py) ==
    /\ \/ vi[2] < py /\ vj[2] >= py
       \/ vj[2] < py /\ vi[2] >= py
    /\ IF vj[2] > vi[2]
       THEN (py - vi[2]) * (vj[1] - vi[1]) < (px - vi[1]) * (vj[2] - vi[2])
       ELSE (py - vi[2]) * (vj[1] - vi[1]) > (px - vi[1]) * (vj[2] - vi[2])

InPolygon(polygon, px, py) ==
    LET n == Len(polygon)
        left == {i \in 1 .. n :
                    CrossesLeft(polygon[i], polygon[(i % n) + 1], px, py)}
    IN  Cardinality(left) % 2 = 1

crop_point_cloud(polygon, axis_min, axis_max, cloud) ==
    {p \in cloud :
        /\ ~(Pt[p].z < axis_min \/ Pt[p].z > axis_max)
        /\ InPolygon(polygon, 10 * Pt[p].x, 10 * Pt[p].y)}

\* the polygons a shape file is drawn from: the bounding rectangle of all
\* positions, a rectangle with a margin around them, one around the plant
\* at x = 0, and one away from every point
RectBox == Rect(-1, 12, 0, 3)
RectWide == Rect(-2, 13, -1, 4)
RectPlant == Rect(-2, 2, -1, 2)
RectFar == Rect(20, 21, 20, 21)

Polygons == {RectBox, RectWide, RectPlant, RectFar}

\* the keys of the polygons of a shape file, in file order
PolyKeys == << "a", "b", "c" >>

\* read_shp / read_shps: the dict of named polygons, as its list of items
ShpFiles(PolySet) ==
    { [i \in DOMAIN ps |-> [key |-> PolyKeys[i], polygon |-> ps[i]]] :
        ps \in SeqsUpTo(PolySet, MaxPolys) }

\* lines 401-403: the per-instance clouds written
shp_files(wp, k, shp_seg) ==
    IF wp
    THEN {File(OutFolder(wp), k, shp_seg[i].key, "ply") : i \in DOMAIN shp_seg}
    ELSE {}

\* shp_class with the empty crops left out
shp_class_nonempty(k, c, shp_seg, axis_min, axis_max) ==
    SelectSeq([i \in DOMAIN shp_seg |->
                  crop_point_cloud(shp_seg[i].polygon, axis_min, axis_max, c)]
                  \o << >>,
              LAMBDA roi : roi # {})

\* lines 385-399 for class k: one instance per polygon, in the dict's order
shp_class(k, c, shp_seg, axis_min, axis_max) ==
    [i \in DOMAIN shp_seg |->
        crop_point_cloud(shp_seg[i].polygon, axis_min, axis_max, c)]

\* the z-range of the prism (lines 374-375)
AxisMin(cloud) == Min(Zs(cloud))
\* axis_max taken from the lowest point
AxisMaxOfMin(cloud) == Min(Zs(cloud))
AxisMax(cloud) == Max(Zs(cloud))

\* Foreground without the test for the background key
EveryKey(keys) == keys

\* the classes a segmentation loops over
Foreground(keys) == SelectSeq(keys, LAMBDA k : k # BACKGROUND)

\* Plot.shp_segmentation
shp_segmentation(shp_seg, cleaned, cloud, wp) ==
    LET fg == Range(Foreground(KeyOrder(DOMAIN cleaned)))
    IN  SegResult(Return, "",
            [k \in fg |-> shp_class(k, cleaned[k], shp_seg,
                                    AxisMin(cloud), AxisMax(cloud))],
            [k \in fg |-> [i \in DOMAIN shp_seg |->
                              ShpName(k, shp_seg[i].key)]],
            UNION {shp_files(wp, k, shp_seg) : k \in fg},
            EmptyDict)

\* ----------------------------------------------------------------- Plant
\* the heights of a cloud's points, in ascending order
SortedZ(c) ==
    LET rank(p) == Cardinality({q \in c : \/ Pt[q].z < Pt[p].z
                                          \/ Pt[q].z = Pt[p].z /\ q < p})
    IN  [i \in 1 .. Cardinality(c) |->
            Pt[CHOOSE p \in c : rank(p) = i - 1].z] \o << >>

\* np.percentile(z, q) of a non-empty sorted z, times 100: linear
\* interpolation between the two nearest ranks
percentile100(z, q) ==
    LET k == (Len(z) - 1) * q
        i == k \div 100
        r == k % 100
    IN  IF r = 0 THEN 100 * z[i + 1]
        ELSE 100 * z[i + 1] + r * (z[i + 2] - z[i + 1])

\* np.median of a non-empty sorted z, times 2
median2(z) ==
    LET n == Len(z)
    IN  IF n % 2 = 1 THEN 2 * z[(n + 1) \div 2]
        ELSE z[n \div 2] + z[(n \div 2) + 1]

\* a height: not-a-number, or the fraction num / den
NaN == [nan |-> TRUE, num |-> 0, den |-> 1]
Height(num, den) == [nan |-> FALSE, num |-> num, den |-> den]

\* how ground_ht is given: 'auto', or a number
Auto == [auto |-> TRUE, ht |-> 0]
Given(ht) == [auto |-> FALSE, ht |-> ht]

\* lines 559-574: the ground elevation, times 2, from the ground points
\* below the 5th percentile of the instance's heights.  min() of no value
\* raises; gaussian_kde raises on a single value and on values that are all
\* the same.
ground_center(inst, ground) ==
    With(SortedZ(inst), LAMBDA z :
    With({g \in ground : 100 * Pt[g].z < percentile100(z, 5)},
         LAMBDA ground_z :
        IF ground_z = {}
        THEN [status |-> Raise, exc |-> "ValueError", ele2 |-> 0]
        ELSE IF Cardinality(ground_z) = 1
        THEN [status |-> Raise, exc |-> "ValueError", ele2 |-> 0]
        ELSE IF Cardinality(Zs(ground_z)) = 1
        THEN [status |-> Raise, exc |-> "LinAlgError", ele2 |-> 0]
        ELSE [status |-> Return, exc |-> "",
              ele2 |-> median2(SortedZ(ground_z))]))

\* height_above over every point of the instance, above the base or not
height_above_all(inst, base2) ==
    IF inst = {} THEN NaN
    ELSE With(SortedZ(inst), LAMBDA z :
         With({p \in inst : 100 * Pt[p].z > percentile100(z, 90)},
              LAMBDA top :
             IF top = {} THEN NaN
             ELSE Height(2 * SumOver(top, [p \in top |-> Pt[p].z])
                             - base2 * Cardinality(top),
                         2 * Cardinality(top))))

\* height_above giving 0 where no point lies above the base
height_above_zero(inst, base2) ==
    With({p \in inst : 2 * Pt[p].z > base2}, LAMBDA ele_z :
        IF ele_z = {} THEN Height(0, 1)
        ELSE With(SortedZ(ele_z), LAMBDA z :
             With({p \in ele_z : 100 * Pt[p].z > percentile100(z, 90)},
                  LAMBDA top :
                 IF top = {} THEN NaN
                 ELSE Height(2 * SumOver(top, [p \in top |-> Pt[p].z])
                                 - base2 * Cardinality(top),
                             2 * Cardinality(top)))))

\* lines 579-585 from plant_base (times 2): mean of the heights above the
\* 90th percentile of the heights above the base, minus the base; the
\* percentile, and the mean, of no value is nan
height_above(inst, base2) ==
    With({p \in inst : 2 * Pt[p].z > base2}, LAMBDA ele_z :
        IF ele_z = {} THEN NaN
        ELSE With(SortedZ(ele_z), LAMBDA z :
             With({p \in ele_z : 100 * Pt[p].z > percentile100(z, 90)},
                  LAMBDA top :
                 IF top = {} THEN NaN
                 ELSE Height(2 * SumOver(top, [p \in top |-> Pt[p].z])
                                 - base2 * Cardinality(top),
                             2 * Cardinality(top)))))

\* get_percentile_height taking the elevation from the ground cloud
\* whatever ground_ht is
get_percentile_height_auto(inst, ground, container_ht, ground_ht) ==
    With(ground_center(inst, ground), LAMBDA g :
        IF g.status = Raise
        THEN [status |-> Raise, exc |-> g.exc, ht |-> NaN]
        ELSE [status |-> Return, exc |-> "",
              ht |-> height_above(inst, g.ele2 + 2 * container_ht)])

\* Plant.get_percentile_height
get_percentile_height(inst, ground, container_ht, ground_ht) ==
    IF ground_ht.auto
    THEN With(ground_center(inst, ground), LAMBDA g :
             IF g.status = Raise
             THEN [status |-> Raise, exc |-> g.exc, ht |-> NaN]
             ELSE [status |-> Return, exc |-> "",
                   ht |-> height_above(inst, g.ele2 + 2 * container_ht)])
    ELSE [status |-> Return, exc |-> "",
          ht |-> height_above(inst, 2 * ground_ht.ht + 2 * container_ht)]

\* Plant.clip_background: the ground points inside the instance's bounding
\* rectangle widened by a tenth of its sides, the first corner repeated to
\* close it.  max() of no value raises.
clip_background(inst, ground) ==
    IF inst = {} \/ ground = {}
    THEN [status |-> Raise, exc |-> "ValueError", ground_pcd |-> ground]
    ELSE LET x_min == Min(Xs(inst))
             x_max == Max(Xs(inst))
             y_min == Min(Ys(inst))
             y_max == Max(Ys(inst))
             x_len == x_max - x_min
             y_len == y_max - y_min
             polygon ==
                 << <<10 * x_min - x_len, 10 * y_min - y_len>>,
                    <<10 * x_min - x_len, 10 * y_max + y_len>>,
                    <<10 * x_max + x_len, 10 * y_max + y_len>>,
                    <<10 * x_max + x_len, 10 * y_min - y_len>>,
                    <<10 * x_min - x_len, 10 * y_min - y_len>> >>
         IN  [status |-> Return, exc |-> "",
              ground_pcd |-> crop_point_cloud(polygon, Min(Zs(ground)),
                                              Max(Zs(ground)), ground)]

\* the XY positions of a cloud
Footprint(c) == {<<Pt[p].x, Pt[p].y>> : p \in c}

\* pcd_tools.convex_hull2d: fails on fewer than 3 distinct XY positions
convex_hull2d(inst) ==
    IF Cardinality(Footprint(inst)) < 3
    THEN [status |-> Raise, exc |-> "QhullError"]
    ELSE [status |-> Return, exc |-> ""]

\* pcd_tools.pcd2binary: the image of the instance's footprint over its
\* bounding rectangle, one pixel per grid position; fore are the pixels
\* with a point, back the others
pcd2binary(inst) ==
    LET cells == (Min(Xs(inst)) .. Max(Xs(inst)))
                     \X (Min(Ys(inst)) .. Max(Ys(inst)))
    IN  [fore |-> Cardinality(Footprint(inst)),
         back |-> Cardinality(cells \ Footprint(inst))]

\* Plant.get_projected_leaf_area: np.unique counts the pixel values in
\* ascending order and the second count is taken; there is none when the
\* image holds one value only
get_projected_leaf_area(binary) ==
    LET number == (IF binary.back > 0 THEN <<binary.back>> ELSE <<>>)
                      \o (IF binary.fore > 0 THEN <<binary.fore>> ELSE <<>>)
    IN  IF Len(number) < 2
        THEN [status |-> Raise, exc |-> "IndexError", pla |-> 0]
        ELSE [status |-> Return, exc |-> "", pla |-> number[2]]

\* Plant(pcd_input=inst, indices, ground_pcd=ground, container_ht,
\* ground_ht): the traits computed, or the exception of the first step
\* that fails
PlantResult(status, exc, ground_pcd, pla, pctl_ht) ==
    [status |-> status, exc |-> exc, ground_pcd |-> ground_pcd,
     pla |-> pla, pctl_ht |-> pctl_ht]

\* SharedAfterClip with the crop done in place on the cloud passed in
SharedClipped(ground, clipped) == clipped

\* line 522: the cloud passed as ground_pcd after clip_background.
\* crop_point_cloud returns a new cloud, which self.ground_pcd is bound
\* to; the cloud passed in is left as it was.
SharedAfterClip(ground, clipped) == ground

\* Plant.__init__ without the bookkeeping of pcd, ground_in and shared
Plant_traits(inst, ground, container_ht, ground_ht) ==
    With(clip_background(inst, ground), LAMBDA clip :
        IF clip.status = Raise
        THEN PlantResult(Raise, clip.exc, ground, 0, NaN)
        ELSE IF convex_hull2d(inst).status = Raise
        THEN PlantResult(Raise, convex_hull2d(inst).exc, clip.ground_pcd,
                         0, NaN)
        ELSE With(get_projected_leaf_area(pcd2binary(inst)), LAMBDA area :
            IF area.status = Raise
            THEN PlantResult(Raise, area.exc, clip.ground_pcd, 0, NaN)
            ELSE With(get_percentile_height(inst, clip.ground_pcd,
                                            container_ht, ground_ht),
                      LAMBDA ht :
                IF ht.status = Raise
                THEN PlantResult(Raise, ht.exc, clip.ground_pcd, area.pla,
                                 NaN)
                ELSE PlantResult(Return, "", clip.ground_pcd, area.pla,
                                 ht.ht))))

\* The Plant object: pcd is self.pcd, ground_in the cloud passed as
\* ground_pcd as the constructor found it, shared the same cloud as the
\* constructor leaves it, ground_pcd is self.ground_pcd.
Plant__init__(inst, ground, container_ht, ground_ht) ==
    With(Plant_traits(inst, ground, container_ht, ground_ht), LAMBDA t :
        [status |-> t.status, exc |-> t.exc, pcd |-> inst,
         ground_in |-> ground,
         shared |-> SharedAfterClip(ground, t.ground_pcd),
         ground_pcd |-> t.ground_pcd, pla |-> t.pla,
         pctl_ht |-> t.pctl_ht])

\* ------------------------------------------------------------ get_traits
PlotName == "plot"

\* the instances of a segmentation in the order get_traits visits them
RECURSIVE Instances(_, _)
Instances(keys, seg) ==
    IF keys = <<>> THEN <<>>
    ELSE [i \in DOMAIN seg[Head(keys)] |-> [kind |-> Head(keys), i |-> i]]
             \o Instances(Tail(keys), seg)

\* plotting: Plant.draw_3d_results saves one figure under the instance name
draw_3d_results(folder, name) ==
    {File(folder, name.class, name.tag, "png")}

\* Row numbering the plants of a class from 1
RowFromOne(k, i, made) ==
    [plot |-> PlotName, plant |-> i + 1, kind |-> k, pla |-> made.pla,
     pctl_ht |-> made.pctl_ht]

\* lines 427-441: the row appended for instance i of class k
Row(k, i, made) ==
    [plot |-> PlotName, plant |-> i, kind |-> k, pla |-> made.pla,
     pctl_ht |-> made.pctl_ht]

TraitsResult(status, exc, rows, fs, plants, at) ==
    [status |-> status, exc |-> exc, rows |-> rows, files |-> fs,
     plants |-> plants, at |-> at]

NoInstance == [kind |-> 0, i |-> 0]

\* line 423 for the instances of todo in turn: the Plants made, up to and
\* with the first whose constructor raised.  ground is the cloud
\* self.pcd_classified[-1] as the instance at hand finds it.
RECURSIVE build_plants(_, _, _, _, _)
build_plants(todo, seg, ground, args, acc) ==
    IF todo = <<>> THEN acc
    ELSE With(Plant__init__(seg[Head(todo).kind][Head(todo).i], ground,
                            args.container_ht, args.ground_ht),
              LAMBDA p :
         With(acc \o << p >>, LAMBDA made :
             IF p.status = Raise THEN made
             ELSE build_plants(Tail(todo), seg, p.shared, args, made)))

\* the instance loop of get_traits (lines 419-441) over todo: plants holds
\* the Plants made; the loop ends at the first that raised
traits_loop(todo, names, wp, args, plants) ==
    With(IF \E j \in DOMAIN plants : plants[j].status = Raise
         THEN Min({j \in DOMAIN plants : plants[j].status = Raise})
         ELSE Len(todo) + 1,
         LAMBDA stop :
        TraitsResult(
            IF stop > Len(todo) THEN Return ELSE Raise,
            IF stop > Len(todo) THEN "" ELSE plants[stop].exc,
            [j \in 1 .. stop - 1 |->
                Row(todo[j].kind, todo[j].i - 1, plants[j])] \o << >>,
            IF args.savefig /\ wp
            THEN UNION { draw_3d_results(OutFolder(wp),
                                         names[todo[j].kind][todo[j].i]) :
                         j \in 1 .. stop - 1 }
            ELSE {},
            plants,
            IF stop > Len(todo) THEN NoInstance ELSE todo[stop]))

\* Plot.get_traits
get_traits(is_segmented, seg, names, classified, wp, args) ==
    IF ~is_segmented
    THEN TraitsResult(Raise, "AttributeError", <<>>, {}, <<>>, NoInstance)
    ELSE With(Instances(Foreground(KeyOrder(DOMAIN seg)), seg),
              LAMBDA todo :
        IF todo # <<>> /\ BACKGROUND \notin DOMAIN classified
        \* self.pcd_classified[-1] for the first instance
        THEN TraitsResult(Raise, "KeyError", <<>>, {}, <<>>, todo[1])
        ELSE With(build_plants(todo, seg, classified[BACKGROUND], args,
                               << >>),
                  LAMBDA plants :
                      traits_loop(todo, names, wp, args, plants)))

\* ------------------------------------------------------ the plot's methods
SegFields ==
    [segmented |-> segmented, pcd_segmented |-> pcd_segmented,
     pcd_segmented_name |-> pcd_segmented_name]

\* the arguments of auto_segmentation
AutoArgs ==
    [name_by : {"x", "y"}, ascending : BOOLEAN, eps_times : {1, 2},
     img_folder : ImgFolders]

\* plot.auto_segmentation(name_by, ascending, eps_times, img_folder)
AutoSegmentation(ArgSet) ==
    /\ pc = "plot"
    /\ calls < MaxCalls
    /\ \E args \in ArgSet :
        \E r \in auto_segmentation(KeyOrder(DOMAIN pcd_classified),
                                   pcd_cleaned, write_ply, voxel, args) :
            LET new == Commit(r, SegFields)
            IN  /\ segmented' = new.segmented
                /\ pcd_segmented' = new.pcd_segmented
                /\ pcd_segmented_name' = new.pcd_segmented_name
                /\ files' = files \cup r.files
                /\ ret' = Call("auto_segmentation", args, r.status, r.exc,
                               r.info, <<>>)
    /\ calls' = calls + 1
    /\ UNCHANGED << pc, clf_args, clf, write_ply, pcd, voxel,
                    pcd_classified, pcd_cleaned, plant, dirs, batch >>

\* plot.shp_segmentation(shp_dir)
ShpSegmentation(ShpSet) ==
    /\ pc = "plot"
    /\ calls < MaxCalls
    /\ \E shp_seg \in ShpSet :
        \E r \in {shp_segmentation(shp_seg, pcd_cleaned, pcd, write_ply)} :
          LET new == Commit(r, SegFields)
          IN
            /\ segmented' = new.segmented
            /\ pcd_segmented' = new.pcd_segmented
            /\ pcd_segmented_name' = new.pcd_segmented_name
            /\ files' = files \cup r.files
            /\ ret' = Call("shp_segmentation", shp_seg, r.status, r.exc,
                           <<>>, <<>>)
    /\ calls' = calls + 1
    /\ UNCHANGED << pc, clf_args, clf, write_ply, pcd, voxel,
                    pcd_classified, pcd_cleaned, plant, dirs, batch >>

\* the arguments of get_traits
TraitArgs ==
    [container_ht : {0}, ground_ht : {Auto, Given(0), Given(6)},
     savefig : BOOLEAN]

\* plot.get_traits(container_ht, ground_ht, savefig)
GetTraits(ArgSet) ==
    /\ pc = "plot"
    /\ calls < MaxCalls
    /\ \E args \in ArgSet :
        \E r \in {get_traits(segmented, pcd_segmented, pcd_segmented_name,
                            pcd_classified, write_ply, args)} :
            /\ files' = files \cup r.files
            \* the cloud pcd_classified[-1] as the last Plant leaves it
            /\ pcd_classified' =
                   IF r.plants = << >> THEN pcd_classified
                   ELSE [pcd_classified EXCEPT
                            ![BACKGROUND] = r.plants[Len(r.plants)].shared]
            /\ ret' = Call("get_traits", args, r.status, r.exc,
                           [plants |-> r.plants, at |-> r.at], r.rows)
    /\ calls' = calls + 1
    /\ UNCHANGED << pc, clf_args, clf, write_ply, pcd, voxel, pcd_cleaned,
                    segmented, pcd_segmented, pcd_segmented_name, plant,
                    dirs, batch >>

\* ------------------------------------------- a session on one plot (Spec)
\* the plot clouds of a session: ground and one plant; ground, a plant and
\* a stray point; ground only; plant points only
SessionClouds ==
    { Ground \cup PlantA, Ground \cup PlantA \cup Stray, Ground,
      PlantA \cup Stray }

SessionAutoArgs ==
    [name_by : {"x"}, ascending : {TRUE}, eps_times : {1},
     img_folder : ImgFolders]

\* the shape files of a session: one polygon around every point, one away
\* from every point, and both
SessionShps ==
    { << [key |-> "a", polygon |-> RectWide] >>,
      << [key |-> "a", polygon |-> RectFar] >>,
      << [key |-> "a", polygon |-> RectWide],
         [key |-> "b", polygon |-> RectFar] >> }

SessionTraitArgs ==
    [container_ht : {0}, ground_ht : {Auto, Given(0)}, savefig : BOOLEAN]

Next ==
    \/ NewClassifier(SessionArgs)
    \/ NewPlot(SessionClouds, BOOLEAN)
    \/ AutoSegmentation(SessionAutoArgs)
    \/ ShpSegmentation(SessionShps)
    \/ GetTraits(SessionTraitArgs)

Spec == Init /\ [][Next]_vars

\* ------------------------------- one segmentation of any cloud (SpecSeg)
\* the classifiers of the segmentation runs: background and one foreground
\* class, and two foreground classes
SegSessionArgs ==
    { [path_list |-> <<PcdGround, PngPlant>>,
       kind_list |-> <<BACKGROUND, 0>>, core |-> "dtc"],
      [path_list |-> <<PngPlant, PcdGround>>,
       kind_list |-> <<0, 1>>, core |-> "dtc"] }

\* get_traits as the example script calls it
DefaultTraitArgs ==
    { [container_ht |-> 0, ground_ht |-> Auto, savefig |-> TRUE] }

\* get_traits in the segmentation runs: the ground found from the
\* background, and given as a number
SegTraitArgs ==
    DefaultTraitArgs
        \cup { [container_ht |-> 0, ground_ht |-> Given(0),
                savefig |-> TRUE] }

SegAuto == calls = 0 /\ AutoSegmentation(AutoArgs)
SegShp == calls = 0 /\ ShpSegmentation(ShpFiles(Polygons))
SegTraits == calls = 1 /\ GetTraits(SegTraitArgs)

NextSeg ==
    \/ NewClassifier(SegSessionArgs)
    \/ NewPlot(Clouds, {FALSE})
    \/ SegAuto
    \/ SegShp
    \/ SegTraits

SpecSeg == Init /\ [][NextSeg]_vars

\* ------------------------------------- a Plant made on its own (SpecPlant)
\* the clouds passed as ground_pcd: the ground points and two points of
\* equal height
GroundClouds == SUBSET (Ground \cup {3, 5})

\* container_ht and ground_ht as a caller gives them
PlantArgs == [container_ht : {0, 6}, ground_ht : {Auto, Given(0), Given(1)}]

\* plant = Plant(pcd_input, indices, ground_pcd, container_ht=..,
\* ground_ht=..)
NewPlant ==
    /\ pc = "start"
    /\ \E inst \in Clouds, ground \in GroundClouds, args \in PlantArgs :
        \E p \in {Plant__init__(inst, ground, args.container_ht,
                                args.ground_ht)} :
            /\ plant' = p
            /\ pc' = IF p.status = Return THEN "plant" ELSE "stop"
            /\ ret' = Call("Plant", args, p.status, p.exc, <<>>, p.pctl_ht)
    /\ UNCHANGED << clf_args, clf, plot_vars, calls, files, dirs, batch >>

\* plant.get_percentile_height(container_ht, ground_ht)
GetPercentileHeight ==
    /\ pc = "plant"
    /\ \E args \in PlantArgs :
        \E r \in {get_percentile_height(plant.pcd, plant.ground_pcd,
                                        args.container_ht, args.ground_ht)} :
            ret' = Call("get_percentile_height", args, r.status, r.exc,
                        <<>>, r.ht)
    /\ UNCHANGED << pc, clf_args, clf, plot_vars, plant, calls, files,
                    dirs, batch >>

\* the binary images a caller can pass: fore pixels with a point, back
\* pixels without
Images == [fore : 0 .. 2, back : 0 .. 2]

\* plant.get_projected_leaf_area(binary, px_num_per_cm=1)
GetProjectedLeafArea ==
    /\ pc = "plant"
    /\ \E binary \in Images :
        \E r \in {get_projected_leaf_area(binary)} :
            ret' = Call("get_projected_leaf_area", binary, r.status, r.exc,
                        <<>>, r.pla)
    /\ UNCHANGED << pc, clf_args, clf, plot_vars, plant, calls, files,
                    dirs, batch >>

NextPlant == NewPlant \/ GetPercentileHeight \/ GetProjectedLeafArea

SpecPlant == Init /\ [][NextPlant]_vars

\* ------------------------------------------------ creation.py (SpecBatch)
\* the names of the entries of path_folders
FolderNames == {"a", "b", "skip"}

\* What an entry of path_folders is: a folder with photos (its own or in
\* nested folders) that Metashape processes; a folder with no photo; a file
\* in the root of path_folders; a folder with photos on which a Metashape
\* call raises.
FolderKinds == {"photos", "empty", "file", "fails"}

\* os.listdir(path_folders): entries of different names, in any order
Listings ==
    { l \in SeqsUpTo([name : FolderNames, kind : FolderKinds], MaxFolders) :
        \A i, k \in DOMAIN l : i # k => l[i].name # l[k].name }

\* path_folders + name, "/", name (line 441-442)
SavePath(name) == << name, name >>

\* lines 439-444: filename_list gets the path of every folder not named
\* 'skip', in listing order
fill_filename_list(folder_list) ==
    LET kept == SelectSeq(folder_list, LAMBDA e : e.name # "skip")
    IN  [i \in DOMAIN kept |-> SavePath(kept[i].name)]

\* lines 428 and 444: folder_count is the length of the listing, less one
\* for every folder named 'skip'
fill_folder_count(folder_list) ==
    Len(folder_list)
        - Cardinality({i \in DOMAIN folder_list :
                         folder_list[i].name = "skip"})

\* what one turn of the main loop did: the folder looked at, the path it
\* saved the project under (none: << >>), and how it ended
Turn(folder, savepath, status, exc, outcome) ==
    [folder |-> folder, savepath |-> savepath, status |-> status,
     exc |-> exc, outcome |-> outcome]

\* lines 447-617 for this_folder with filename_list[j] as save path
main_body(this_folder, savepath) ==
    IF this_folder.kind = "file"
    \* os.listdir(path_photos), line 464
    THEN Turn(this_folder.name, << >>, Raise, "NotADirectoryError", "")
    ELSE IF this_folder.kind = "empty"
    \* photo_count = 0: continue, line 531
    THEN Turn(this_folder.name, << >>, Return, "", "no photos found")
    ELSE IF this_folder.kind = "fails"
    \* saved at line 536, then a Metashape call raises
    THEN Turn(this_folder.name, savepath, Raise, "RuntimeError", "")
    ELSE Turn(this_folder.name, savepath, Return, "", "complete")

\* lines 426-444: the folder lists are filled
StartBatch ==
    /\ pc = "start"
    /\ \E l \in Listings :
        /\ batch' = [folder_list |-> l,
                     folder_count |-> fill_folder_count(l),
                     filename_list |-> fill_filename_list(l),
                     j |-> 0, done |-> << >>]
        /\ ret' = Call("listdir", l, Return, "", <<>>, <<>>)
    /\ pc' = "batch"
    /\ UNCHANGED << clf_args, clf, plot_vars, plant, calls, files, dirs >>

\* one turn of the main loop, for j in range(folder_count)
ProcessFolder ==
    /\ pc = "batch"
    /\ batch.j < batch.folder_count
    /\ \E t \in {main_body(batch.folder_list[batch.j + 1],
                            batch.filename_list[batch.j + 1])} :
        /\ batch' = [batch EXCEPT !.j = batch.j + 1,
                                  !.done = Append(batch.done, t)]
        /\ pc' = IF t.status = Raise THEN "abort" ELSE "batch"
        /\ ret' = Call("main_body", batch.j, t.status, t.exc, <<>>, t)
    /\ UNCHANGED << clf_args, clf, plot_vars, plant, calls, files, dirs >>

\* lines 620-622: the loop is over and the finish time is printed
FinishBatch ==
    /\ pc = "batch"
    /\ batch.j = batch.folder_count
    /\ pc' = "done"
    /\ ret' = Call("finished", <<>>, Return, "", <<>>, <<>>)
    /\ UNCHANGED << clf_args, clf, plot_vars, plant, batch, calls, files,
                    dirs >>

NextBatch == StartBatch \/ ProcessFolder \/ FinishBatch

SpecBatch == Init /\ [][NextBatch]_vars

\* ================================================================= claims
\* the foreground classes of the plot
ForegroundKeys == DOMAIN pcd_cleaned \ {BACKGROUND}

SegmentationOps == {"auto_segmentation", "shp_segmentation"}

\* the number of instances the plot holds
InstanceCount ==
    SumOver(DOMAIN pcd_segmented,
            [k \in DOMAIN pcd_segmented |-> Len(pcd_segmented[k])])

\* C1: get_traits called on a plot from which no segmentation call has
\* returned raises and gives no table; the segmented flag is set only by a
\* segmentation call that returns, and get_traits returns only when the
\* flag is set.
C1_TraitsOnlyAfterSegmentation ==
    [][ /\ (ret'.op = "get_traits" /\ ~segmented) =>
               /\ ret'.status = Raise
               /\ ret'.exc = "AttributeError"
               /\ ret'.val = <<>>
        /\ (segmented' /\ ~segmented) =>
               /\ ret'.op \in SegmentationOps
               /\ ret'.status = Return
        /\ (ret'.op = "get_traits" /\ ret'.status = Return) => segmented
      ]_vars

\* C1 witness: get_traits has raised on a plot whose only segmentation call
\* failed part-way (it had already saved the image of its first class)
C1_RaisedAfterFailedSegmentation ==
    /\ pc = "plot" /\ ~write_ply /\ ~segmented
    /\ ret.op = "get_traits" /\ ret.exc = "AttributeError"
    /\ files # {}

\* a per-class segmentation diagnostic image
SegImage(f) == f.ext = "png" /\ f.tag = ""

\* a plot made, or tried to be made, with write_ply=False
WriteDisabled ==
    \/ pc = "plot" /\ ~write_ply
    \/ ret.op = "Plot" /\ ~ret.args.write_ply

\* C2 as stated: with write_ply=False no side file of any kind is produced
\* and no output directory is created, whatever is called.
C2_NoSideFile == WriteDisabled => files = {} /\ dirs = {}

\* C2 amended: with write_ply=False no directory is created and the only
\* files produced are the per-class diagnostic images of auto_segmentation.
C2_OnlySegImages ==
    WriteDisabled => dirs = {} /\ \A f \in files : SegImage(f)

\* C2 witness: on a plot with write_ply=False, auto_segmentation has saved
\* its image and get_traits(savefig=True) has returned rows
C2_ImageSavedTraitsReturned ==
    /\ pc = "plot" /\ ~write_ply
    /\ ret.op = "get_traits" /\ ret.status = Return /\ ret.args.savefig
    /\ Len(ret.val) > 0
    /\ \E f \in files : SegImage(f)

\* the classes of classified hold every point of cloud exactly once
IsPartition(classified, cloud) ==
    /\ UNION {classified[k] : k \in DOMAIN classified} = cloud
    /\ \A j, k \in DOMAIN classified :
          j # k => classified[j] \cap classified[k] = {}
    /\ SumOver(DOMAIN classified,
               [k \in DOMAIN classified |-> Cardinality(classified[k])])
          = Cardinality(cloud)

\* C3: with any classifier that Classifier has built, constructing a Plot
\* from a ply path whose cloud has been read classifies the cloud into a
\* partition.
C3_ClassifierPartitionsCloud ==
    ( /\ ret.op = "Plot" /\ ret.args.path \in {"file", "dir"}
      /\ ret.exc # "TypeError" ) =>
        /\ ret.status = Return
        /\ IsPartition(pcd_classified, ret.args.cloud)

\* the plot is the scene of ground and the two plants, and its last call
\* is op
TwoPlantScene(op) ==
    /\ pc = "plot" /\ ret.op = op
    /\ pcd = Ground \cup PlantA \cup PlantB
    /\ BACKGROUND \in DOMAIN pcd_classified

\* C4: when the foreground class is clustered into exactly the two plants
\* (centroids at x = 0 and 1 m), auto_segmentation(name_by='x',
\* ascending=True) keeps both, the plant at x = 0 as plant 0 and the other
\* as plant 1, and get_traits then yields 2 rows.
C4_TwoPlantsTwoRows ==
    /\ ( /\ TwoPlantScene("auto_segmentation")
         /\ ret.args.name_by = "x" /\ ret.args.ascending
         /\ 0 \in DOMAIN ret.info
         /\ ret.info[0].seg_list = << PlantA, PlantB >> ) =>
           /\ ret.status = Return
           /\ pcd_segmented[0] = << PlantA, PlantB >>
           /\ pcd_segmented_name[0] = << PlantName(0, 0), PlantName(0, 1) >>
    /\ ( /\ TwoPlantScene("get_traits")
         /\ segmented
         /\ \A k \in DOMAIN pcd_segmented_name :
               \A i \in DOMAIN pcd_segmented_name[k] :
                   pcd_segmented_name[k][i] = PlantName(k, i - 1) ) =>
           /\ ret.status = Return
           /\ Len(ret.val) = 2

\* C5: get_traits on a segmented plot with a background class returns a
\* table with one row per instance, even when the traits of an instance
\* cannot be computed.
C5_OneRowPerInstance ==
    ( /\ ret.op = "get_traits" /\ segmented
      /\ BACKGROUND \in DOMAIN pcd_classified ) =>
        /\ ret.status = Return
        /\ Len(ret.val) = InstanceCount

\* C6: auto_segmentation of a plot with a foreground class whose cleaned
\* cloud is empty returns, with an empty instance list for that class and
\* a list for every other foreground class.
C6_EmptyClassNoError ==
    ( /\ ret.op = "auto_segmentation"
      /\ \E k \in ForegroundKeys : pcd_cleaned[k] = {} ) =>
        /\ ret.status = Return
        /\ DOMAIN pcd_segmented = ForegroundKeys
        /\ \A k \in ForegroundKeys :
              pcd_cleaned[k] = {} => pcd_segmented[k] = <<>>

\* the corners of the rectangle around a polygon's vertices
PolyXs(polygon) == {polygon[i][1] : i \in DOMAIN polygon}
PolyYs(polygon) == {polygon[i][2] : i \in DOMAIN polygon}

\* the points of c the crop keeps for a rectangle: those inside it or on
\* its upper edges
KeptByRect(polygon, c) ==
    {p \in c :
        /\ Min(PolyXs(polygon)) < 10 * Pt[p].x
        /\ 10 * Pt[p].x <= Max(PolyXs(polygon))
        /\ Min(PolyYs(polygon)) < 10 * Pt[p].y
        /\ 10 * Pt[p].y <= Max(PolyYs(polygon))}

\* C7: shp_segmentation returns, and leaves for every foreground class one
\* instance and one name per polygon, in the polygons' order: instance i
\* holds the class's cleaned points inside polygon i (none, maybe) and is
\* named class[k]-<key of polygon i>.
C7_OneInstancePerPolygon ==
    ret.op = "shp_segmentation" =>
        /\ ret.status = Return /\ segmented
        /\ DOMAIN pcd_segmented = ForegroundKeys
        /\ DOMAIN pcd_segmented_name = ForegroundKeys
        /\ \A k \in ForegroundKeys :
              /\ Len(pcd_segmented[k]) = Len(ret.args)
              /\ Len(pcd_segmented_name[k]) = Len(ret.args)
              /\ \A i \in 1 .. Len(ret.args) :
                    /\ pcd_segmented_name[k][i]
                          = [class |-> k, tag |-> ret.args[i].key]
                    /\ pcd_segmented[k][i]
                          = KeptByRect(ret.args[i].polygon, pcd_cleaned[k])

\* C7 witness: two foreground classes, two polygons, and a class whose
\* first instance is empty and whose second is not
C7_EmptyAndFullInstance ==
    /\ ret.op = "shp_segmentation" /\ Len(ret.args) = 2
    /\ Cardinality(ForegroundKeys) = 2
    /\ \E k \in ForegroundKeys :
          pcd_segmented[k][1] = {} /\ pcd_segmented[k][2] # {}

\* the rectangle of the polygon holds every point of cloud, its edges
\* included
Covers(polygon, cloud) ==
    /\ Min(PolyXs(polygon)) <= 10 * Min(Xs(cloud))
    /\ 10 * Max(Xs(cloud)) <= Max(PolyXs(polygon))
    /\ Min(PolyYs(polygon)) <= 10 * Min(Ys(cloud))
    /\ 10 * Max(Ys(cloud)) <= Max(PolyYs(polygon))

\* the rectangle of the polygon holds every point of cloud off its edges
StrictlyCovers(polygon, cloud) ==
    /\ Min(PolyXs(polygon)) < 10 * Min(Xs(cloud))
    /\ 10 * Max(Xs(cloud)) < Max(PolyXs(polygon))
    /\ Min(PolyYs(polygon)) < 10 * Min(Ys(cloud))
    /\ 10 * Max(Ys(cloud)) < Max(PolyYs(polygon))

\* every foreground class has one instance: all its cleaned points
OneFullInstance ==
    /\ DOMAIN pcd_segmented = ForegroundKeys
    /\ \A k \in ForegroundKeys : pcd_segmented[k] = << pcd_cleaned[k] >>

\* C8 as stated: shp_segmentation with one polygon that covers the extent
\* of the cloud leaves one instance per foreground class, holding all the
\* cleaned points of the class.
C8_CoveringPolygonKeepsAll ==
    ( /\ ret.op = "shp_segmentation" /\ Len(ret.args) = 1
      /\ Covers(ret.args[1].polygon, pcd) ) => OneFullInstance

\* C8 amended: the same with a polygon that holds every point of the cloud
\* strictly inside it.
C8_EnclosingPolygonKeepsAll ==
    ( /\ ret.op = "shp_segmentation" /\ Len(ret.args) = 1
      /\ StrictlyCovers(ret.args[1].polygon, pcd) ) => OneFullInstance

\* C8 witness: one enclosing polygon, two foreground classes, both with
\* points at other heights than the lowest of the cloud
C8_EnclosedTwoClasses ==
    /\ ret.op = "shp_segmentation" /\ Len(ret.args) = 1
    /\ StrictlyCovers(ret.args[1].polygon, pcd)
    /\ Cardinality(ForegroundKeys) = 2
    /\ \A k \in ForegroundKeys :
          \E p \in pcd_segmented[k][1] : Pt[p].z > Min(Zs(pcd))

\* C9: after auto_segmentation(name_by, ascending) has returned, the
\* centroids of consecutive instances of every class are in non-decreasing
\* order of the name_by coordinate (non-increasing when ascending=False),
\* and instance i is named class[k]-plant<i>, i = 0 .. n-1.
C9_InstancesSortedAndNumbered ==
    (ret.op = "auto_segmentation" /\ ret.status = Return) =>
        \A k \in DOMAIN pcd_segmented :
            /\ \A i \in 1 .. Len(pcd_segmented[k]) - 1 :
                  IF ret.args.ascending
                  THEN CenterLeq(pcd_segmented[k][i],
                                 pcd_segmented[k][i + 1], ret.args.name_by)
                  ELSE CenterLeq(pcd_segmented[k][i + 1],
                                 pcd_segmented[k][i], ret.args.name_by)
            /\ DOMAIN pcd_segmented_name[k] = DOMAIN pcd_segmented[k]
            /\ \A i \in DOMAIN pcd_segmented[k] :
                  pcd_segmented_name[k][i]
                      = [class |-> k, tag |-> PlantTags[i]]

\* C9 witness: a descending sort has left two instances with different
\* centroids
C9_TwoInstancesDescending ==
    /\ ret.op = "auto_segmentation" /\ ret.status = Return
    /\ ~ret.args.ascending
    /\ \E k \in DOMAIN pcd_segmented :
          /\ Len(pcd_segmented[k]) = 2
          /\ ~CenterLeq(pcd_segmented[k][1], pcd_segmented[k][2],
                        ret.args.name_by)

\* the shorter of the lengths of the two lists Classifier was given
ShorterLen ==
    IF Len(clf_args.path_list) < Len(clf_args.kind_list)
    THEN Len(clf_args.path_list) ELSE Len(clf_args.kind_list)

\* C10: given lists of different lengths, Classifier keeps the leading
\* ShorterLen elements of each and trains on those pairs: the training
\* arrays are those of the kept pairs, it raises only where a kept source
\* cannot be read or there is no sample to fit, and a fitted tree is one
\* fitted to the kept pairs.
C10_TruncatesAndTrains ==
    ( /\ ret.op \in {"Classifier", "predict"}
      /\ Len(clf_args.path_list) # Len(clf_args.kind_list) ) =>
        LET pl == SubSeq(clf_args.path_list, 1, ShorterLen)
            kl == SubSeq(clf_args.kind_list, 1, ShorterLen)
            arr == build_training_array(pl, kl, <<>>, <<>>)
        IN  /\ clf.path_list = pl
            /\ clf.kind_list = kl
            /\ clf.train_data = arr.train_data
            /\ clf.train_kind = arr.train_kind
            /\ clf.status = Raise =>
                  \/ arr.status = Raise /\ clf.exc = arr.exc
                  \/ arr.train_data = <<>> /\ clf.exc = "ValueError"
            /\ clf.clf.fitted =>
                  clf.clf.tree \in FittedTrees(arr.train_data, arr.train_kind)

\* C10 witness: one source and two labels were given, and a tree was
\* fitted to the first pair
C10_FittedOnFirstPair ==
    /\ ret.op = "Classifier" /\ ret.status = Return
    /\ Len(clf_args.path_list) = 1 /\ Len(clf_args.kind_list) = 2
    /\ clf.clf.fitted
    /\ clf.train_kind # <<>>

\* C11: Classifier construction on an empty sample set (no source, or
\* sources that yield no colour sample) raises.
C11_EmptySampleSetFails ==
    (ret.op = "Classifier" /\ clf.train_data = <<>>) => ret.status = Raise

\* C12: when Classifier construction returns the held model is fitted, and
\* predict never fails for want of a fitted model.
C12_ModelFittedOnReturn ==
    /\ (ret.op = "Classifier" /\ ret.status = Return) => clf.clf.fitted
    /\ ret.op = "predict" =>
           ret.exc \notin {"NotFittedError", "AttributeError"}

\* C13: the cleaned mapping of a plot has the key set of the classified
\* mapping, and every cleaned cloud is a subset of its classified cloud.
C13_CleanedWithinClassified ==
    pc = "plot" =>
        /\ DOMAIN pcd_cleaned = DOMAIN pcd_classified
        /\ \A k \in DOMAIN pcd_cleaned :
              /\ pcd_cleaned[k] \subseteq pcd_classified[k]
              /\ Cardinality(pcd_cleaned[k])
                    <= Cardinality(pcd_classified[k])

\* C13 witness: a plot with a background class whose foreground class has
\* lost some of its points, and kept others, in cleaning
C13_ForegroundPointRemoved ==
    /\ pc = "plot" /\ ret.op = "Plot"
    /\ BACKGROUND \in DOMAIN pcd_cleaned
    /\ pcd_classified[BACKGROUND] # {}
    /\ \E k \in ForegroundKeys :
          /\ pcd_cleaned[k] # pcd_classified[k]
          /\ pcd_cleaned[k] # {}

\* the rows of class k in a table, in table order
RowsOf(rows, k) == SelectSeq(rows, LAMBDA r : r.kind = k)

\* C14: a table returned by get_traits has one row per instance: as many
\* rows as the plot has instances, no two rows with the same (plot, plant,
\* kind), and the rows of each class in the order of its instance list with
\* plant = 0 .. n-1.
C14_OneRowPerInstanceInOrder ==
    (ret.op = "get_traits" /\ ret.status = Return) =>
        /\ Len(ret.val) = InstanceCount
        /\ \A i, j \in DOMAIN ret.val :
              i # j =>
                  << ret.val[i].plot, ret.val[i].plant, ret.val[i].kind >>
                      # << ret.val[j].plot, ret.val[j].plant,
                           ret.val[j].kind >>
        /\ \A i \in DOMAIN ret.val : ret.val[i].kind \in DOMAIN pcd_segmented
        /\ \A k \in DOMAIN pcd_segmented :
              /\ Len(RowsOf(ret.val, k)) = Len(pcd_segmented[k])
              /\ \A j \in DOMAIN pcd_segmented[k] :
                    RowsOf(ret.val, k)[j].plant = j - 1

\* C14 witness: a table of two rows for the two instances of one class
C14_TwoRowsReturned ==
    /\ ret.op = "get_traits" /\ ret.status = Return
    /\ \E k \in DOMAIN pcd_segmented : Len(pcd_segmented[k]) = 2
    /\ Len(ret.val) = 2

\* the ground sample of the plant: the points of its ground cloud below
\* the 5th percentile of its heights
GroundSample ==
    {g \in plant.ground_pcd :
        100 * Pt[g].z < percentile100(SortedZ(plant.pcd), 5)}

\* case (a): 'auto' mode and an empty ground sample
NoGroundBelow(a) == a.ground_ht.auto /\ GroundSample = {}

\* twice the plant base the arguments a ask for
PlantBase2(a) ==
    (IF a.ground_ht.auto THEN median2(SortedZ(GroundSample))
     ELSE 2 * a.ground_ht.ht) + 2 * a.container_ht

\* case (b): the base is defined and no point of the plant lies above it
NoPointAbove(a) ==
    /\ a.ground_ht.auto => GroundSample # {}
    /\ \A p \in plant.pcd : 2 * Pt[p].z <= PlantBase2(a)

\* C15: a height computed for a Plant in case (a) or (b) is never a finite
\* number: the call raises, or the height is NaN.
C15_NoFiniteHeightWithoutSample ==
    ( /\ pc = "plant"
      /\ ret.op \in {"Plant", "get_percentile_height"}
      /\ NoGroundBelow(ret.args) \/ NoPointAbove(ret.args) ) =>
        ret.status = Raise \/ ret.val.nan

\* C15 witness: get_percentile_height has returned NaN for a plant with no
\* point above the base
C15_NaNReturned ==
    /\ pc = "plant" /\ ret.op = "get_percentile_height"
    /\ NoPointAbove(ret.args)
    /\ ret.status = Return /\ ret.val.nan

\* case (a) met by a call: it raised
C15_RaisedOnEmptySample ==
    /\ pc = "plant" /\ ret.op = "get_percentile_height"
    /\ NoGroundBelow(ret.args)
    /\ ret.status = Raise

\* C16: a turn of the batch loop that fails (no photos, a bad file, a
\* failing processing step) does not end the run: the script does not stop
\* on an exception, and when it is done every folder of the listing that is
\* not named 'skip' has had its turn.
C16_FailureDoesNotStopRun ==
    /\ pc # "abort"
    /\ pc = "done" =>
          \A i \in DOMAIN batch.folder_list :
              batch.folder_list[i].name # "skip" =>
                  \E k \in DOMAIN batch.done :
                      batch.done[k].folder = batch.folder_list[i].name

\* the clusters of 2-means group v in what auto_segmentation computed for
\* a class
GroupOf(info, v) == {i \in DOMAIN info.labels : info.labels[i] = v}

\* the sum of the point-count feature over a group
FeatureSum(info, G) == SumOver(G, [i \in G |-> info.chars[i][1]])

\* -1, 0, 1: the mean point-count feature of group 0 is less than, equal
\* to, greater than that of group 1 (both groups with a member)
MeanOrder(info) ==
    LET a == FeatureSum(info, GroupOf(info, 0))
                 * Cardinality(GroupOf(info, 1))
        b == FeatureSum(info, GroupOf(info, 1))
                 * Cardinality(GroupOf(info, 0))
    IN  IF a < b THEN -1 ELSE IF a = b THEN 0 ELSE 1

\* the classes auto_segmentation has taken through the 2-means step
Clustered ==
    IF ret.op = "auto_segmentation"
    THEN {k \in DOMAIN ret.info : ret.info[k].labels # << >>}
    ELSE {}

\* the clusters kept as plants for class k
KeptClusters(k) == Range(ret.info[k].order)

C17_LargerFirstGroupKept ==
    \E k \in Clustered :
        /\ GroupOf(ret.info[k], 1) # {}
        /\ MeanOrder(ret.info[k]) = 1
        /\ KeptClusters(k) = GroupOf(ret.info[k], 0)

\* the passes of the Plot call that has just returned, for class k, in the
\* order they ran
PassesOf(k) == SelectSeq(ret.info, LAMBDA ps : ps.class = k)

\* C18: when Plot returns, the background has had a statistical pass
\* (neighbours round(density), ratio 0.01) on its classified cloud and then a
\* radius pass (neighbours round(2 * density), radius voxel_size) on the
\* output of the first, every other class one radius pass (neighbours
\* round(density), radius voxel_size) on its classified cloud, all with the
\* one density and voxel size of the plot; the last output is the cleaned
\* cloud.
C18_PassesPerClass ==
    ( ret.op = "Plot" /\ ret.status = Return ) =>
        \A k \in DOMAIN pcd_classified :
            LET ps == PassesOf(k)
            IN  IF k = BACKGROUND
                THEN /\ Len(ps) = 2
                     /\ ps[1].filter = "statistical"
                     /\ ps[1].input = pcd_classified[k]
                     /\ ps[1].nb = RoundHalf(voxel.density2)
                     /\ ps[1].param = 1
                     /\ ps[2].filter = "radius"
                     /\ ps[2].input = ps[1].output
                     /\ ps[2].nb = RoundHalf(2 * voxel.density2)
                     /\ ps[2].param = voxel.size
                     /\ pcd_cleaned[k] = ps[2].output
                ELSE /\ Len(ps) = 1
                     /\ ps[1].filter = "radius"
                     /\ ps[1].input = pcd_classified[k]
                     /\ ps[1].nb = RoundHalf(voxel.density2)
                     /\ ps[1].param = voxel.size
                     /\ pcd_cleaned[k] = ps[1].output

\* C18 witness: a plot with a background and a foreground class, where the
\* statistical pass dropped a background point, the radius pass another,
\* and round(2 * density) differs from 2 * round(density)
C18_BothBackgroundPassesRemove ==
    /\ ret.op = "Plot" /\ ret.status = Return
    /\ BACKGROUND \in DOMAIN pcd_classified
    /\ DOMAIN pcd_classified # {BACKGROUND}
    /\ Len(PassesOf(BACKGROUND)) = 2
    /\ PassesOf(BACKGROUND)[1].output # PassesOf(BACKGROUND)[1].input
    /\ PassesOf(BACKGROUND)[2].output # PassesOf(BACKGROUND)[2].input
    /\ RoundHalf(2 * voxel.density2) # 2 * RoundHalf(voxel.density2)

\* the Plants made by the get_traits call that has just ended
PlantsMade == IF ret.op = "get_traits" THEN ret.info.plants ELSE << >>

\* C19: in a get_traits call every Plant is handed the classified
\* background of the plot as it was before the call, and the call leaves
\* pcd_classified, pcd_cleaned and pcd_segmented as they were; what a Plant
\* keeps after clipping is a selection of that background.
C19_SameGroundForEveryInstance ==
    [][ ( ret'.op = "get_traits" /\ ret'.info.plants # << >> ) =>
            /\ \A j \in DOMAIN ret'.info.plants :
                   /\ ret'.info.plants[j].ground_in
                          = pcd_classified[BACKGROUND]
                   /\ ret'.info.plants[j].ground_pcd
                          \subseteq pcd_classified[BACKGROUND]
            /\ pcd_classified' = pcd_classified
            /\ pcd_cleaned' = pcd_cleaned
            /\ pcd_segmented' = pcd_segmented ]_vars

\* C19 witness: two Plants made in one call, the first of which clipped
\* away a ground point that the second one keeps
C19_LaterInstanceKeepsClippedPoint ==
    /\ Len(PlantsMade) >= 2
    /\ PlantsMade[1].ground_pcd # PlantsMade[1].ground_in
    /\ PlantsMade[2].ground_pcd \ PlantsMade[1].ground_pcd # {}
    /\ PlantsMade[2].ground_in = pcd_classified[BACKGROUND]

\* get_percentile_height in 'auto' mode on a ground sample with a member,
\* were lines 570-572 (linspace, gaussian_kde, its evaluation) not there:
\* the median of the sample is the elevation
HeightWithoutKde(a) ==
    height_above(plant.pcd,
                 median2(SortedZ(GroundSample)) + 2 * a.container_ht)

\* C20: in 'auto' mode, on a ground sample that has a median, the call
\* returns, and returns the height that the median alone gives: the kernel
\* density step changes neither the height nor whether the call succeeds.
C20_KdeHasNoEffect ==
    ( /\ pc = "plant" /\ ret.op = "get_percentile_height"
      /\ ret.args.ground_ht.auto
      /\ GroundSample # {} ) =>
        /\ ret.status = Return
        /\ ret.val = HeightWithoutKde(ret.args)

\* a call in 'auto' mode on a ground sample of two heights: it returns the
\* height the median gives, a finite one
C20_MedianHeightReturned ==
    /\ pc = "plant" /\ ret.op = "get_percentile_height"
    /\ ret.args.ground_ht.auto
    /\ Cardinality(Zs(GroundSample)) >= 2
    /\ ret.status = Return /\ ~ret.val.nan
    /\ ret.val = HeightWithoutKde(ret.args)

\* a call in 'auto' mode on a ground sample of one point: it raises
C20_RaisedOnSinglePoint ==
    /\ pc = "plant" /\ ret.op = "get_percentile_height"
    /\ ret.args.ground_ht.auto
    /\ Cardinality(GroundSample) = 1
    /\ ret.status = Raise

\* the call of get_percentile_height that has just ended had a numeric
\* ground_ht
NumericCall ==
    /\ pc = "plant" /\ ret.op = "get_percentile_height"
    /\ ~ret.args.ground_ht.auto

\* twice ground_ht + container_ht of the arguments a
NumericBase2(a) == 2 * a.ground_ht.ht + 2 * a.container_ht

\* mean of the set zs of a plant's points, minus base2 / 2
MeanAbove(zs, base2) ==
    Height(2 * SumOver(zs, [p \in zs |-> Pt[p].z])
               - base2 * Cardinality(zs),
           2 * Cardinality(zs))

\* C21: with a numeric ground_ht the call returns, the plant base is
\* ground_ht + container_ht (the height is that of the plant's points above
\* it), and the call gives the same result with any other ground cloud.
C21_NumericGroundIgnoresCloud ==
    NumericCall =>
        /\ ret.status = Return
        /\ LET above == {p \in plant.pcd :
                           2 * Pt[p].z > NumericBase2(ret.args)}
               top == {p \in above :
                         100 * Pt[p].z
                             > percentile100(SortedZ(above), 90)}
           IN  ret.val = IF above = {} \/ top = {} THEN NaN
                         ELSE MeanAbove(top, NumericBase2(ret.args))
        /\ \A g \in GroundClouds :
               LET other == get_percentile_height(plant.pcd, g,
                                ret.args.container_ht, ret.args.ground_ht)
               IN  other.status = ret.status /\ other.ht = ret.val

\* C21 witness: a numeric call returned a finite height on a plant whose
\* ground cloud gives another height in 'auto' mode, and on which a
\* ground cloud without points would make 'auto' raise
C21_NumericDiffersFromAuto ==
    /\ NumericCall
    /\ ret.args.ground_ht.ht = 1
    /\ ret.status = Return /\ ~ret.val.nan
    /\ LET auto == get_percentile_height(plant.pcd, plant.ground_pcd,
                                         ret.args.container_ht, Auto)
       IN  auto.status = Return /\ auto.ht # ret.val

\* C22: get_projected_leaf_area on an image with a foreground pixel returns
\* the number of foreground pixels (times the area of a pixel, 1 here),
\* also when the image has no background pixel.
C22_AreaIsForegroundCount ==
    ( ret.op = "get_projected_leaf_area" /\ ret.args.fore >= 1 ) =>
        /\ ret.status = Return
        /\ ret.val = ret.args.fore

\* a call on an image with pixels of both kinds returned the foreground
\* count
C22_AreaReturned ==
    /\ ret.op = "get_projected_leaf_area"
    /\ ret.args.fore >= 1 /\ ret.args.back >= 1
    /\ ret.status = Return /\ ret.val = ret.args.fore

\* a Plant whose footprint fills its bounding rectangle: the constructor
\* raised IndexError
C22_PlantWithoutBackgroundPixel ==
    /\ ret.op = "Plant" /\ ret.status = Raise /\ ret.exc = "IndexError"
    /\ pcd2binary(plant.pcd).fore >= 1
    /\ pcd2binary(plant.pcd).back = 0

\* the instances a segmentation call that returned has found, per class:
\* for auto_segmentation the kept clusters in their order, for
\* shp_segmentation the crop of each polygon
FoundBy(op, args, info) ==
    IF op = "auto_segmentation"
    THEN [k \in DOMAIN info |->
             [j \in DOMAIN info[k].order |->
                 info[k].seg_list[info[k].order[j]]]]
    ELSE shp_segmentation(args, pcd_cleaned, pcd, write_ply).seg_out

\* C23: a segmentation call that raises leaves segmented, pcd_segmented
\* and pcd_segmented_name as they were; one that returns sets segmented and
\* leaves in the two dicts the instances of this call only, one name per
\* instance; no step takes segmented from TRUE to FALSE on the same plot.
C23_SegmentationAllOrNothing ==
    [][ /\ ( ret'.op \in SegmentationOps /\ ret'.status = Raise ) =>
               /\ segmented' = segmented
               /\ pcd_segmented' = pcd_segmented
               /\ pcd_segmented_name' = pcd_segmented_name
        /\ ( ret'.op \in SegmentationOps /\ ret'.status = Return ) =>
               /\ segmented'
               /\ pcd_segmented'
                      = FoundBy(ret'.op, ret'.args, ret'.info)
               /\ DOMAIN pcd_segmented_name' = DOMAIN pcd_segmented'
               /\ \A k \in DOMAIN pcd_segmented' :
                      Len(pcd_segmented_name'[k]) = Len(pcd_segmented'[k])
        /\ ( pc = "plot" /\ segmented ) => segmented'
      ]_vars

\* C23 witness: a segmentation call has raised on a plot that holds the
\* instances of an earlier call
C23_RaisedAfterSegmented ==
    /\ pc = "plot" /\ segmented
    /\ ret.op \in SegmentationOps /\ ret.status = Raise
    /\ InstanceCount > 0

\* the second call on a plot, an auto_segmentation, has returned one
\* instance
C23_ReturnedAfterSegmented ==
    /\ pc = "plot" /\ calls = 2
    /\ ret.op = "auto_segmentation" /\ ret.status = Return
    /\ InstanceCount = 1

\* the labels of the training pairs the classifier kept
RetainedKinds == Range(clf.kind_list)

\* C24: a constructed classifier's kind_set is the set of labels of the
\* pairs kept after truncation; the one-class model is chosen exactly when
\* one such label exists, and a plot's class keys are among these labels.
C24_KindSetOfRetainedPairs ==
    /\ pc \in {"clf", "plot"} =>
           /\ clf.kind_set = RetainedKinds
           /\ clf.clf.type = "OneClassSVM"
                  <=> Cardinality(RetainedKinds) = 1
    /\ pc = "plot" => DOMAIN pcd_classified \subseteq RetainedKinds

\* a plot holds a class key whose label has no training pair
C24_KeyWithoutTrainingData ==
    /\ pc = "plot"
    /\ DOMAIN pcd_classified \ RetainedKinds # {}

\* a classifier made from lists of equal length holds the labels of its
\* pairs
C24_KindSetOfEqualLists ==
    /\ pc = "clf"
    /\ Len(clf_args.path_list) = Len(clf_args.kind_list)
    /\ Cardinality(clf.kind_set) = 2
    /\ clf.kind_set = RetainedKinds

\* the turns of the main loop that looked at the folder called name
TurnsOf(name) == {k \in DOMAIN batch.done : batch.done[k].folder = name}

\* the listing has a folder named 'skip' at position i
SkipAt(i) ==
    i \in DOMAIN batch.folder_list /\ batch.folder_list[i].name = "skip"

\* C25: no turn of the main loop looks at a folder named 'skip', and when
\* the loop has ended every other folder of the listing has had exactly one
\* turn, wherever 'skip' is in the listing.
C25_SkipNeverProcessed ==
    /\ TurnsOf("skip") = {}
    /\ pc = "done" =>
           \A i \in DOMAIN batch.folder_list :
               batch.folder_list[i].name # "skip" =>
                   Cardinality(TurnsOf(batch.folder_list[i].name)) = 1

\* a run that ended with 'skip' last in a listing of three: the two other
\* folders had one turn each and 'skip' none
C25_SkipLastRunEnded ==
    /\ pc = "done"
    /\ Len(batch.folder_list) = 3 /\ SkipAt(3)
    /\ TurnsOf("skip") = {}
    /\ \A i \in 1 .. 2 :
           Cardinality(TurnsOf(batch.folder_list[i].name)) = 1

\* a run that ended with 'skip' first: it had a turn, and the last folder
\* none
C25_SkipFirstProcessed ==
    /\ pc = "done"
    /\ Len(batch.folder_list) >= 2 /\ SkipAt(1)
    /\ TurnsOf("skip") # {}
    /\ TurnsOf(batch.folder_list[Len(batch.folder_list)].name) = {}

\* C26: every turn of the main loop that saves the project saves it under
\* the path built from the folder whose photos it loaded, and the index of
\* the turn is within filename_list.
C26_SavePathOfSameFolder ==
    /\ \A k \in DOMAIN batch.done :
           batch.done[k].savepath # << >> =>
               batch.done[k].savepath = SavePath(batch.done[k].folder)
    /\ pc = "batch" /\ batch.j < batch.folder_count =>
           batch.j + 1 \in DOMAIN batch.filename_list

\* a turn saved the photos of one folder under the path of another
C26_SavedUnderOtherFolder ==
    \E k \in DOMAIN batch.done :
        /\ batch.done[k].savepath # << >>
        /\ batch.done[k].savepath # SavePath(batch.done[k].folder)

\* a run without 'skip' that ended: every turn saved under its own folder
C26_SavedUnderOwnFolder ==
    /\ pc = "done" /\ Len(batch.done) = 2
    /\ \A i \in DOMAIN batch.folder_list : ~SkipAt(i)
    /\ \A k \in DOMAIN batch.done :
           batch.done[k].savepath = SavePath(batch.done[k].folder)

\* a height has just been computed for the plant: by the constructor or by
\* a call of get_percentile_height that returned
HeightComputed ==
    /\ pc = "plant"
    /\ ret.op \in {"Plant", "get_percentile_height"}
    /\ ret.status = Return

\* C27: a height that get_percentile_height returns and that is a number
\* is greater than 0.
C27_DefinedHeightPositive ==
    ( HeightComputed /\ ~ret.val.nan ) =>
        ret.val.num > 0 /\ ret.val.den > 0

\* C27 witness: a number was returned for a plant that has a point at or
\* below the plant base, a base that is not 0
C27_HeightWithPointBelowBase ==
    /\ HeightComputed /\ ret.op = "get_percentile_height"
    /\ ~ret.val.nan
    /\ PlantBase2(ret.args) > 0
    /\ \E p \in plant.pcd : 2 * Pt[p].z <= PlantBase2(ret.args)

\* get_traits has just been called on a segmented plot that holds an
\* instance
TraitsOnInstances ==
    /\ pc = "plot" /\ ret.op = "get_traits"
    /\ segmented /\ InstanceCount > 0

\* C28: the segmented mapping of a plot never has the background key, and
\* get_traits on a segmented plot with an instance returns only if the
\* classifier's label set holds the background label; without it the call
\* raises KeyError.
C28_BackgroundRequiredNotSegmented ==
    /\ pc = "plot" => BACKGROUND \notin DOMAIN pcd_segmented
    /\ ( TraitsOnInstances /\ ret.status = Return ) =>
           BACKGROUND \in clf.kind_set
    /\ ( TraitsOnInstances /\ BACKGROUND \notin clf.kind_set ) =>
           ret.status = Raise /\ ret.exc = "KeyError"

\* C28 witness: get_traits raised KeyError on a plot of two foreground
\* classes, segmented into instances with points
C28_KeyErrorWithoutBackground ==
    /\ TraitsOnInstances
    /\ BACKGROUND \notin clf.kind_set
    /\ \E k \in DOMAIN pcd_segmented :
           \E i \in DOMAIN pcd_segmented[k] : pcd_segmented[k][i] # {}
    /\ ret.status = Raise /\ ret.exc = "KeyError"

\* get_traits returned on a plot with cleaned background points, none of
\* them in an instance
C28_ReturnedWithBackground ==
    /\ TraitsOnInstances /\ ret.status = Return
    /\ BACKGROUND \in DOMAIN pcd_cleaned
    /\ pcd_cleaned[BACKGROUND] # {}
    /\ \A k \in DOMAIN pcd_segmented :
           \A i \in DOMAIN pcd_segmented[k] :
               pcd_segmented[k][i] \cap pcd_cleaned[BACKGROUND] = {}

====
